---------------------------- MODULE Spec2Model ----------------------------
(***************************************************************************)
(* Model of the multi-tenant organizational management backend             *)
(* (projeto-backend/app).  The document database is a set of collections,   *)
(* each a set of documents (records); every route handler is one action     *)
(* that reads and writes the collections and leaves its HTTP response in    *)
(* `resp`.                                                                  *)
(*                                                                          *)
(* Encoding conventions                                                     *)
(*   - identifiers (uuid4 strings) are positive integers; Python None in an *)
(*     identifier-valued field is Null (0), which is falsy as None is;      *)
(*   - a dict key that may be missing is modelled by a presence flag or by  *)
(*     the string Absent in a string-valued field;                          *)
(*   - Python lists that are only tested with `in` and for truthiness are   *)
(*     sets.                                                                *)
(***************************************************************************)
EXTENDS Integers, FiniteSets, Sequences, TLC

(***************************************************************************)
(* Bounds of the model.                                                     *)
(***************************************************************************)
NumIds == 2            \* identifiers that permission lists may name
MaxDocs == 1           \* documents uploaded in one run
MaxLocations == 1      \* locations created in one run
MaxViews == 1          \* views counted per document
MaxParticipations == 2  \* participations inserted in one run
MaxAuditEntries == 4   \* distinct audit entries written in one run
MaxJourney == 2        \* journey records inserted in one run
MaxUpdates == 2        \* update_user calls that write, in one run
MaxForwarded == 3      \* requests the rate limiter passes on in one run
MaxFollowUps == 2      \* acompanhamentos created in one run
MaxIndicators == 1     \* stage indicators created in one run
MaxCycles == 1         \* cycles created in one run
MaxUsers == 3          \* user documents ever stored in one run
MaxTenants == 2        \* tenants ever stored in one run
MaxRequests == 2       \* create_participation requests in flight together

(***************************************************************************)
(* Values.                                                                  *)
(***************************************************************************)
Null == 0
Absent == "absent"

\* app/models/enums.py UserRole
SUPERADMIN == "superadmin"
ADMIN == "admin"
FORMADOR == "formador"
USER == "user"
UserRole == {SUPERADMIN, ADMIN, FORMADOR, USER}

\* a create_participation request between two of its database calls: pc
\* names the call it makes next, caller and tenant_id are of the current_user
\* it was given, cycle holds the cycle document it has read and participation
\* the document it has inserted
RequestIds == 1..MaxRequests
IdleRequest ==
    [pc |-> "idle", caller |-> Null, tenant_id |-> Null, user_id |-> Null,
     cycle_id |-> Null, cycle |-> {}, participation |-> {}]
NoRequests == [r \in RequestIds |-> IdleRequest]

Ids == 1..NumIds
IdOrNull == Ids \cup {Null}

VARIABLES
    users,          \* db.users
    documents,      \* db.documents
    locations,      \* db.locations
    audit_logs,     \* db.audit_logs
    last_id,        \* per collection, the number of identifiers generated
    videos,         \* db.videos
    video_progress, \* db.video_progress
    video_evaluations, \* db.video_evaluations
    stage_cycles,   \* db.stage_cycles
    stage_participations, \* db.stage_participations
    password_resets, \* db.password_resets
    user_journey,   \* db.user_journey
    now,            \* datetime.now(timezone.utc), in seconds
    spent,          \* history: the reset tokens confirmed since last issued
    resp,           \* the response (or return value) of the last operation
    perm_arg,       \* the permission set handed to check_permission
    requests,       \* create_participation requests suspended at a database call
    tenants,        \* db.tenants
    formative_stages, \* db.formative_stages
    stage_indicators, \* db.stage_indicators
    acompanhamentos, \* db.acompanhamentos
    rate_limit_store, \* main.py rate_limit_store: key -> list of timestamps
    forwarded       \* history: key -> instants of the requests passed on

vars == <<users, documents, locations, audit_logs, last_id,
          videos, video_progress, video_evaluations,
          stage_cycles, stage_participations, password_resets, user_journey,
          now, spent, resp, perm_arg, requests,
          tenants, formative_stages, stage_indicators, acompanhamentos,
          rate_limit_store, forwarded>>

videoVars == <<videos, video_progress, video_evaluations>>
contentVars == <<documents, locations>>
partVars == <<stage_cycles, stage_participations>>
resetVars == <<password_resets, spent>>
rateVars == <<rate_limit_store, forwarded>>
platformVars == <<tenants, formative_stages, stage_indicators,
                  acompanhamentos, rateVars>>

\* the collections a specification leaves alone
offPerm == <<videoVars, partVars, resetVars, user_journey, now,
    platformVars>>
offTenant == <<videoVars, partVars, resetVars, user_journey, now,
    platformVars>>
offVideo == <<contentVars, partVars, resetVars, user_journey, now, perm_arg, requests,
    platformVars>>
offPart == <<contentVars, videoVars, resetVars, user_journey, now, perm_arg, requests,
    platformVars>>
offReset == <<contentVars, videoVars, partVars, user_journey, perm_arg, requests,
    platformVars>>
offUser == <<contentVars, videoVars, partVars, resetVars, perm_arg, requests,
    platformVars>>

\* every collection but those named is empty
EmptyParts == stage_cycles = {} /\ stage_participations = {}
EmptyResets == password_resets = {} /\ spent = {}
EmptyJourney == user_journey = {} /\ now = 0
EmptyRates == rate_limit_store = <<>> /\ forwarded = <<>>
EmptyPlatform ==
    /\ tenants = {} /\ formative_stages = {}
    /\ stage_indicators = {} /\ acompanhamentos = {}
    /\ EmptyRates

Collections == {"documents", "locations", "videos", "video_evaluations",
                "stage_participations", "user_journey",
                "acompanhamentos", "stage_indicators", "stage_cycles",
                "users", "tenants"}

(***************************************************************************)
(* utils/security.py                                                        *)
(***************************************************************************)

\* get_user_roles: the `roles` list when the document has one, else the
\* legacy `role` field as a one-element list, else [user].
get_user_roles(user) ==
    IF user.has_roles THEN user.roles
    ELSE IF user.role # Absent THEN {user.role}
    ELSE {USER}

\* normalize_user_roles: user["roles"] = get_user_roles(user); the legacy
\* `role` key is left as it is.
normalize_user_roles(user) ==
    [user EXCEPT !.has_roles = TRUE, !.roles = get_user_roles(user)]

(***************************************************************************)
(* utils/permissions.py                                                     *)
(***************************************************************************)
PermKeys == {"user_ids", "location_ids", "function_ids", "formative_stage_ids"}

\* permissions.get(k, [])
perm_get(permissions, k) ==
    IF k \in permissions.keys THEN permissions.ids[k] ELSE {}

\* `not permissions`: None or the empty dict
perm_falsy(permissions) == permissions.null \/ permissions.keys = {}

\* check_permission without its last rule (an all-empty permission object
\* allows): the bug the "all-empty => allow" edge case guards against.
check_permission_no_empty_rule(user, permissions) ==
    IF perm_falsy(permissions) THEN TRUE
    ELSE IF user.role = ADMIN THEN TRUE
    ELSE IF user.id \in perm_get(permissions, "user_ids") THEN TRUE
    ELSE IF user.location_id # Null
            /\ user.location_id \in perm_get(permissions, "location_ids") THEN TRUE
    ELSE IF user.function_id # Null
            /\ user.function_id \in perm_get(permissions, "function_ids") THEN TRUE
    ELSE IF user.formative_stage_id # Null
            /\ user.formative_stage_id \in perm_get(permissions, "formative_stage_ids") THEN TRUE
    ELSE FALSE

\* check_permission that forgets the function_ids list.
check_permission_no_function(user, permissions) ==
    IF perm_falsy(permissions) THEN TRUE
    ELSE IF user.role = ADMIN THEN TRUE
    ELSE IF user.id \in perm_get(permissions, "user_ids") THEN TRUE
    ELSE IF user.location_id # Null
            /\ user.location_id \in perm_get(permissions, "location_ids") THEN TRUE
    ELSE IF user.formative_stage_id # Null
            /\ user.formative_stage_id \in perm_get(permissions, "formative_stage_ids") THEN TRUE
    ELSE IF \A k \in PermKeys : perm_get(permissions, k) = {} THEN TRUE
    ELSE FALSE

check_permission(user, permissions) ==
    IF perm_falsy(permissions) THEN TRUE
    ELSE IF user.role = ADMIN THEN TRUE
    ELSE IF user.id \in perm_get(permissions, "user_ids") THEN TRUE
    ELSE IF user.location_id # Null
            /\ user.location_id \in perm_get(permissions, "location_ids") THEN TRUE
    ELSE IF user.function_id # Null
            /\ user.function_id \in perm_get(permissions, "function_ids") THEN TRUE
    ELSE IF user.formative_stage_id # Null
            /\ user.formative_stage_id \in perm_get(permissions, "formative_stage_ids") THEN TRUE
    ELSE IF \A k \in PermKeys : perm_get(permissions, k) = {} THEN TRUE
    ELSE FALSE


(***************************************************************************)
(* User documents.                                                          *)
(***************************************************************************)
ACTIVE == "active"
INACTIVE == "inactive"
NoPassword == [pw |-> Null, salt |-> Null]

\* A user document with every optional field unset; `role`/`roles` follow
\* the writer: create_tenant and the startup bootstrap write the legacy
\* `role` only, create_user writes `roles` only, register writes both.
BlankUser(id, tenant_id) ==
    [id |-> id, tenant_id |-> tenant_id, email |-> id, cpf |-> Null,
     phone |-> Null, password |-> NoPassword,
     role |-> Absent, has_roles |-> FALSE, roles |-> {},
     status |-> ACTIVE, location_id |-> Null, function_id |-> Null,
     formative_stage_id |-> Null, is_tenant_owner |-> FALSE, updated_at |-> 0]

\* get_current_user, after the token has been decoded to user_id: the
\* document without its password, normalised; Null when there is none.
FindUser(uid) == {u \in users : u.id = uid}

get_current_user(uid) ==
    LET u == CHOOSE x \in FindUser(uid) : TRUE
    IN normalize_user_roles([u EXCEPT !.password = NoPassword])

(***************************************************************************)
(* SpecPerm: the permission evaluator applied to every viewer document and  *)
(* every permission set within the bounds.                                  *)
(***************************************************************************)
\* The shapes in which the code base stores a user's roles.
RoleFields == UserRole \cup {Absent}
RolesLists == {R \in SUBSET UserRole : Cardinality(R) <= 1} \cup {{USER, ADMIN}}

\* The viewer is user 1; its location, function and stage are unset or 1,
\* so that identifier 1 in a list names the viewer's own and every other
\* identifier names somebody else's.
ViewerDocs ==
    { [BlankUser(1, 1) EXCEPT !.role = r, !.has_roles = h, !.roles = rs,
                              !.location_id = l, !.function_id = f,
                              !.formative_stage_id = s] :
        r \in RoleFields, h \in BOOLEAN, rs \in RolesLists,
        l \in {Null, 1}, f \in {Null, 1}, s \in {Null, 1} }

NullPermissions == [null |-> TRUE, keys |-> {}, ids |-> [k \in PermKeys |-> {}]]

PermissionSets ==
    {NullPermissions} \cup
    { [null |-> FALSE, keys |-> K, ids |-> i] :
        K \in SUBSET PermKeys, i \in [PermKeys -> SUBSET Ids] }

NoResp == [op |-> "none"]

InitPerm ==
    /\ \E u \in ViewerDocs :
          /\ (~u.has_roles => u.roles = {})
          /\ users = {u}
    /\ perm_arg = NullPermissions /\ requests = NoRequests
    /\ resp = NoResp
    /\ documents = {} /\ locations = {} /\ audit_logs = {}
    /\ videos = {} /\ video_progress = {} /\ video_evaluations = {}
    /\ EmptyParts /\ EmptyResets /\ EmptyJourney
    /\ EmptyPlatform
    /\ last_id = [c \in Collections |-> 0]

\* A handler receives current_user from get_current_user and hands it to
\* check_permission with the resource's permission set.
CheckPermission ==
    /\ resp.op = "none"
    /\ \E p \in PermissionSets :
          /\ (\A k \in PermKeys : k \notin p.keys => p.ids[k] = {})
          /\ perm_arg' = p
          /\ resp' = [op |-> "check_permission",
                      user |-> get_current_user(1),
                      ret |-> check_permission(get_current_user(1), p)]
    /\ UNCHANGED <<users, documents, locations, audit_logs, last_id, requests,
                   offPerm>>

NextPerm == CheckPermission

SpecPerm == InitPerm /\ [][NextPerm]_vars

Checked == resp.op = "check_permission"
AllListsEmpty(p) == \A k \in PermKeys : perm_get(p, k) = {}
\* The viewer matches one of the four lists of p.
Matches(u, p) ==
    \/ u.id \in perm_get(p, "user_ids")
    \/ u.location_id # Null /\ u.location_id \in perm_get(p, "location_ids")
    \/ u.function_id # Null /\ u.function_id \in perm_get(p, "function_ids")
    \/ u.formative_stage_id # Null
          /\ u.formative_stage_id \in perm_get(p, "formative_stage_ids")
\* The viewer is an administrator under neither representation of roles.
PlainViewer(u) ==
    /\ u.role \notin {ADMIN, SUPERADMIN}
    /\ u.roles \cap {ADMIN, SUPERADMIN} = {}

\* C2: check_permission(U, P) is true whenever P is null, or U's `role` is
\* admin, or all four ID lists of P are empty or absent.
C2_AllowWhenUnrestricted ==
    Checked =>
        ((perm_arg.null \/ resp.user.role = ADMIN \/ AllListsEmpty(perm_arg))
            => resp.ret)

\* C2 witness: a non-admin viewer was allowed by a permission object that is
\* present, has keys, and whose lists are all empty.
C2_Witness ==
    /\ Checked /\ resp.ret
    /\ ~perm_arg.null /\ perm_arg.keys = PermKeys /\ AllListsEmpty(perm_arg)
    /\ resp.user.role = USER

\* C3: for a viewer who is not an administrator and a permission set with
\* at least one non-empty list, check_permission is true exactly when the
\* viewer's id, or its non-null location, function or formative stage, is in
\* the corresponding list.
C3_NonAdminIffMatch ==
    (Checked /\ PlainViewer(resp.user) /\ ~perm_arg.null /\ ~AllListsEmpty(perm_arg))
        => (resp.ret <=> Matches(resp.user, perm_arg))

\* C3 witness: a plain viewer allowed through the function list alone, the
\* user list naming somebody else.
C3_Witness ==
    /\ Checked /\ resp.ret /\ PlainViewer(resp.user)
    /\ perm_get(perm_arg, "user_ids") = {2}
    /\ resp.user.function_id \in perm_get(perm_arg, "function_ids")
    /\ resp.user.location_id = Null /\ resp.user.formative_stage_id = Null

\* C4: a viewer whose role set (legacy `role` field or `roles` list, as
\* get_current_user normalises it) contains admin or superadmin is allowed
\* by every permission set.
C4_AdminAlwaysAllowed ==
    (Checked /\ resp.user.roles \cap {ADMIN, SUPERADMIN} # {}) => resp.ret

(***************************************************************************)
(* Shared helpers of the route handlers.                                    *)
(***************************************************************************)
\* utils/audit.py log_action: one more entry in db.audit_logs.  An entry is
\* kept without its uuid and timestamp.
AuditEntry(user_id, action, resource_type, resource_id) ==
    [user_id |-> user_id, action |-> action, resource_type |-> resource_type,
     resource_id |-> resource_id, tenant_id |-> Null]

log_action(user_id, action, resource_type, resource_id) ==
    audit_logs \cup {AuditEntry(user_id, action, resource_type, resource_id)}

\* str(uuid.uuid4()): an identifier no document of the collection ever had.
new_id(c) == last_id[c] + 1

\* only the legacy role field is looked at
get_tenant_filter_legacy_role(current_user) ==
    IF current_user.role = SUPERADMIN
    THEN [status |-> 200, any |-> TRUE, tenant_id |-> Null]
    ELSE IF current_user.tenant_id = Null
    THEN [status |-> 403, any |-> FALSE, tenant_id |-> Null]
    ELSE [status |-> 200, any |-> FALSE, tenant_id |-> current_user.tenant_id]

\* get_tenant_filter: no restriction for a superadmin, the caller's tenant
\* otherwise, 403 for a caller without tenant.
get_tenant_filter(current_user) ==
    IF SUPERADMIN \in get_user_roles(current_user)
    THEN [status |-> 200, any |-> TRUE, tenant_id |-> Null]
    ELSE IF current_user.tenant_id = Null
    THEN [status |-> 403, any |-> FALSE, tenant_id |-> Null]
    ELSE [status |-> 200, any |-> FALSE, tenant_id |-> current_user.tenant_id]

\* a document satisfies the filter fragment
in_filter(f, doc) == f.any \/ doc.tenant_id = f.tenant_id

\* require_admin_or_formador
is_admin_or_formador(current_user) ==
    get_user_roles(current_user) \cap {ADMIN, FORMADOR, SUPERADMIN} # {}

\* require_admin
is_admin(current_user) ==
    get_user_roles(current_user) \cap {ADMIN, SUPERADMIN} # {}

Response(op, caller, status, records) ==
    [op |-> op, caller |-> caller, status |-> status, records |-> records]

\* what a find() returns of a user: no password, roles normalised
UserView(u) == normalize_user_roles([u EXCEPT !.password = NoPassword])

(***************************************************************************)
(* SpecTenant: the list and get handlers of users, documents and locations  *)
(* called by users of two tenants and by the superadmin.                    *)
(***************************************************************************)
\* The users the startup bootstrap, create_tenant (twice) and create_user
\* leave behind: the superadmin, the owners of tenants 1 and 2, and a member
\* of tenant 1.
TenantUsers ==
    { [BlankUser(1, Null) EXCEPT !.role = SUPERADMIN],
      [BlankUser(2, 1) EXCEPT !.role = ADMIN, !.is_tenant_owner = TRUE],
      [BlankUser(3, 2) EXCEPT !.role = ADMIN, !.is_tenant_owner = TRUE],
      [BlankUser(4, 1) EXCEPT !.has_roles = TRUE, !.roles = {USER}] }

InitTenant ==
    /\ users = TenantUsers
    /\ documents = {} /\ locations = {} /\ audit_logs = {}
    /\ videos = {} /\ video_progress = {} /\ video_evaluations = {}
    /\ EmptyParts /\ EmptyResets /\ EmptyJourney
    /\ EmptyPlatform
    /\ last_id = [c \in Collections |-> 0]
    /\ resp = NoResp
    /\ perm_arg = NullPermissions /\ requests = NoRequests

\* the permission sets an uploader attaches in this specification
UploadPermissions(uid) ==
    { NullPermissions,
      [null |-> FALSE, keys |-> {"user_ids"},
       ids |-> [k \in PermKeys |-> IF k = "user_ids" THEN {uid} ELSE {}]] }

\* routes/users.py list_users (role is the optional role filter; the other
\* filters and the page only narrow the result further)
list_users ==
    \E cu \in users, role \in UserRole \cup {Absent} :
        LET me == UserView(cu)
            f == get_tenant_filter(me)
            found == { u \in users :
                         /\ in_filter(f, u)
                         /\ role # Absent =>
                              \/ (u.has_roles /\ role \in u.roles)
                              \/ u.role = role }
        IN /\ resp' = IF f.status # 200
                      THEN Response("list_users", me.id, f.status, {})
                      ELSE Response("list_users", me.id, 200,
                                    {UserView(u) : u \in found})
           /\ UNCHANGED <<users, documents, locations, audit_logs, last_id, perm_arg, requests, offTenant>>

\* routes/users.py get_user
get_user ==
    \E cu \in users, user_id \in 1..4 :
        LET me == UserView(cu)
            f == get_tenant_filter(me)
            found == { u \in users : in_filter(f, u) /\ u.id = user_id }
        IN /\ resp' = IF f.status # 200
                      THEN Response("get_user", me.id, f.status, {})
                      ELSE IF found = {}
                      THEN Response("get_user", me.id, 404, {})
                      ELSE Response("get_user", me.id, 200,
                                    {UserView(u) : u \in found})
           /\ UNCHANGED <<users, documents, locations, audit_logs, last_id, perm_arg, requests, offTenant>>

\* routes/documents.py create_document; the stored document has no
\* tenant_id key (tenant_id |-> Null is what doc.get("tenant_id") gives).
create_document ==
    \E cu \in users, is_public \in BOOLEAN, file_ok \in BOOLEAN :
      \E permissions \in UploadPermissions(cu.id) :
        LET me == UserView(cu)
            file_id == new_id("documents")
            doc == [id |-> file_id, tenant_id |-> Null, uploaded_by |-> me.id,
                    is_public |-> is_public, permissions |-> permissions,
                    views |-> 0]
        IN /\ last_id["documents"] < MaxDocs
           /\ IF ~is_admin_or_formador(me)
              THEN /\ resp' = Response("create_document", me.id, 403, {})
                   /\ UNCHANGED <<documents, audit_logs, last_id>>
              ELSE IF ~file_ok
              THEN /\ resp' = Response("create_document", me.id, 400, {})
                   /\ UNCHANGED <<documents, audit_logs, last_id>>
              ELSE /\ documents' = documents \cup {doc}
                   /\ last_id' = [last_id EXCEPT !["documents"] = file_id]
                   /\ audit_logs' = log_action(me.id, "upload", "document", file_id)
                   /\ resp' = Response("create_document", me.id, 200, {doc})
           /\ UNCHANGED <<users, locations, perm_arg, requests, offTenant>>

\* routes/documents.py list_documents
list_documents ==
    \E cu \in users :
        LET me == UserView(cu)
            accessible_docs ==
                { d \in documents :
                    d.is_public \/ check_permission(me, d.permissions) }
        IN /\ resp' = Response("list_documents", me.id, 200, accessible_docs)
           /\ UNCHANGED <<users, documents, locations, audit_logs, last_id, perm_arg, requests, offTenant>>

\* get_document counts the view twice
inc_views_twice(doc) == [doc EXCEPT !.views = doc.views + 2]

\* get_document: {"$inc": {"views": 1}}
inc_views(doc) == [doc EXCEPT !.views = doc.views + 1]

\* the response of get_document, with the id it was asked for
DocResponse(caller, doc_id, status, records) ==
    [op |-> "get_document", caller |-> caller, doc_id |-> doc_id,
     status |-> status, records |-> records]

\* routes/documents.py get_document
get_document ==
    \E cu \in users, doc_id \in 1..MaxDocs :
        LET me == UserView(cu)
            found == { d \in documents : d.id = doc_id }
            doc == CHOOSE d \in found : TRUE
            viewed == inc_views(doc)
        IN IF found = {}
           THEN /\ resp' = DocResponse(me.id, doc_id, 404, {})
                /\ UNCHANGED <<users, documents, locations, audit_logs, last_id, perm_arg, requests, offTenant>>
           ELSE IF ~doc.is_public /\ ~check_permission(me, doc.permissions)
           THEN /\ resp' = DocResponse(me.id, doc_id, 403, {})
                /\ UNCHANGED <<users, documents, locations, audit_logs, last_id, perm_arg, requests, offTenant>>
           ELSE /\ doc.views < MaxViews
                /\ documents' = (documents \ {doc}) \cup {viewed}
                /\ audit_logs' = log_action(me.id, "view", "document", doc_id)
                /\ resp' = DocResponse(me.id, doc_id, 200, {viewed})
                /\ UNCHANGED <<users, locations, last_id, perm_arg, requests, offTenant>>

\* routes/locations.py create_location; no tenant_id key is stored
create_location ==
    \E cu \in users :
        LET me == UserView(cu)
            id == new_id("locations")
            loc == [id |-> id, tenant_id |-> Null, created_by |-> me.id]
        IN /\ last_id["locations"] < MaxLocations
           /\ IF ~is_admin(me)
              THEN /\ resp' = Response("create_location", me.id, 403, {})
                   /\ UNCHANGED <<locations, audit_logs, last_id>>
              ELSE /\ locations' = locations \cup {loc}
                   /\ last_id' = [last_id EXCEPT !["locations"] = id]
                   /\ audit_logs' = log_action(me.id, "create", "location", id)
                   /\ resp' = Response("create_location", me.id, 200, {loc})
           /\ UNCHANGED <<users, documents, perm_arg, requests, offTenant>>

\* routes/locations.py list_locations
list_locations ==
    \E cu \in users :
        /\ resp' = Response("list_locations", cu.id, 200, locations)
        /\ UNCHANGED <<users, documents, locations, audit_logs, last_id, perm_arg, requests, offTenant>>

\* routes/locations.py get_location
get_location ==
    \E cu \in users, location_id \in 1..MaxLocations :
        LET found == { l \in locations : l.id = location_id }
        IN /\ resp' = IF found = {}
                      THEN Response("get_location", cu.id, 404, {})
                      ELSE Response("get_location", cu.id, 200, found)
           /\ UNCHANGED <<users, documents, locations, audit_logs, last_id, perm_arg, requests, offTenant>>

NextTenant ==
    \/ list_users \/ get_user
    \/ create_document \/ list_documents \/ get_document
    \/ create_location \/ list_locations \/ get_location

SpecTenant == InitTenant /\ [][NextTenant]_vars

ReadOps == {"list_users", "get_user", "list_documents", "get_document",
            "list_locations", "get_location"}

\* the caller of the last request
Caller == CHOOSE u \in users : u.id = resp.caller

\* C1: a list or get answered to a caller who is not a superadmin and whose
\* tenant is T holds only records whose tenant_id is T.
C1_TenantIsolation ==
    (resp.op \in ReadOps /\ resp.status = 200
       /\ SUPERADMIN \notin get_user_roles(Caller))
    => \A r \in resp.records : r.tenant_id = Caller.tenant_id

\* C1, on the users collection alone, where the handlers apply the filter.
C1_UsersIsolated ==
    (resp.op \in {"list_users", "get_user"} /\ resp.status = 200
       /\ SUPERADMIN \notin get_user_roles(Caller))
    => \A r \in resp.records : r.tenant_id = Caller.tenant_id

\* the step is a get_document call on a stored document that is not public
PrivateDocAsked ==
    /\ resp'.op = "get_document"
    /\ \E d \in documents : d.id = resp'.doc_id /\ ~d.is_public

\* C11: get_document on a document that is not public answers 403 and leaves
\* the document (its views counter and every other field) unchanged when
\* check_permission denies the caller, and answers 200 with views
\* incremented by exactly 1 when it allows the caller.
C11_PrivateDocumentViews ==
    [][PrivateDocAsked
       => LET d == CHOOSE x \in documents : x.id = resp'.doc_id
              caller == UserView(CHOOSE u \in users : u.id = resp'.caller)
          IN IF check_permission(caller, d.permissions)
             THEN /\ resp'.status = 200
                  /\ documents' = (documents \ {d})
                                      \cup {[d EXCEPT !.views = d.views + 1]}
             ELSE /\ resp'.status = 403
                  /\ UNCHANGED documents]_vars

\* C11 witness: a member who is not on the user_ids list of a private
\* document asked for it and was answered 403, the views still 0.
C11_Witness ==
    /\ resp.op = "get_document" /\ resp.status = 403
    /\ \E d \in documents :
          /\ d.id = resp.doc_id /\ ~d.is_public /\ d.views = 0
          /\ ~d.permissions.null /\ resp.caller \notin d.permissions.ids["user_ids"]

\* C11, the allowed side: the user a private document names got it, views 1.
C11_WitnessAllowed ==
    /\ resp.op = "get_document" /\ resp.status = 200
    /\ \E d \in documents :
          /\ d.id = resp.doc_id /\ ~d.is_public /\ d.views = 1
          /\ ~d.permissions.null /\ resp.caller \in d.permissions.ids["user_ids"]

(***************************************************************************)
(* routes/videos.py: gradual release.                                       *)
(***************************************************************************)
\* models/video_interaction.py ReleaseType
ReleaseType == {"free", "sequential", "evaluation", "completion"}

\* routes/videos.py:547 the scores an evaluation may carry
MinScore == 1
MaxScore == 5
\* routes/videos.py:65 release_config.get("min_evaluation_score", 1)
DefaultMinScore == 1

\* The videos of the model: video 1 is there from the start, video 2 is
\* created and configured in the run.
VideoIds == {1, 2}
GatedVideoIds == VideoIds \ {1}
\* the scores and minimum scores requests carry: the ends and the middle of
\* the range, and for a request one below and one above it
Scores == {MinScore, 3, MaxScore}
ScoreInputs == Scores \cup {MinScore - 1, MaxScore + 1}

\* A gradual_release value.  null: None (or an empty dict), which is falsy.
\* release_type: Absent when the key is missing.  min_key tells whether the
\* min_evaluation_score key is missing ("absent"), holds None ("none") or an
\* integer ("int", the integer in min_evaluation_score).
NoRelease ==
    [null |-> TRUE, release_type |-> Absent, prerequisite_video_id |-> Null,
     min_key |-> "absent", min_evaluation_score |-> 0]

\* what json.loads gives create_video: any key may be missing or null
RawReleaseConfigs ==
    { [null |-> FALSE, release_type |-> rt, prerequisite_video_id |-> pre,
       min_key |-> mk, min_evaluation_score |-> IF mk = "int" THEN ms ELSE 0] :
        rt \in ReleaseType \cup {Absent}, pre \in VideoIds \cup {Null},
        mk \in {"absent", "none", "int"}, ms \in Scores }

\* what GradualReleaseConfig.model_dump() gives update_video: every key is
\* present, min_evaluation_score is None unless the request set it
DumpedReleaseConfigs ==
    { c \in RawReleaseConfigs : c.release_type # Absent /\ c.min_key # "absent" }

Unlocked(video) ==
    [video_id |-> video.id, status |-> 200, is_unlocked |-> TRUE,
     reason |-> "none", prerequisite_completed |-> "none",
     prerequisite_score |-> Null, required_score |-> Null]

\* check_video_access where a progress record unlocks whether or not it is
\* completed
check_video_access_any_progress(video, user_id) ==
    LET rc == video.gradual_release
        release_type == IF rc.release_type = Absent THEN "free" ELSE rc.release_type
        prereq_id == rc.prerequisite_video_id
        progress == { p \in video_progress :
                        p.video_id = prereq_id /\ p.user_id = user_id }
    IN IF rc.null \/ release_type = "free" \/ prereq_id = Null
          \/ release_type \notin {"sequential", "completion"}
       THEN Unlocked(video)
       ELSE IF progress # {}
       THEN [Unlocked(video) EXCEPT !.prerequisite_completed = "true"]
       ELSE [Unlocked(video) EXCEPT !.is_unlocked = FALSE,
                                    !.reason = "complete previous video",
                                    !.prerequisite_completed = "false"]

\* check_video_access.  status 500 stands for the TypeError that
\* `user_score >= min_score` raises when min_score is None.
check_video_access(video, user_id) ==
    LET rc == video.gradual_release
        release_type == IF rc.release_type = Absent THEN "free" ELSE rc.release_type
        prereq_id == rc.prerequisite_video_id
        progress == { p \in video_progress :
                        p.video_id = prereq_id /\ p.user_id = user_id }
        completed == \E p \in progress : p.completed
        evaluation == { e \in video_evaluations :
                          e.video_id = prereq_id /\ e.user_id = user_id }
        user_score == IF evaluation = {} THEN Null
                      ELSE (CHOOSE e \in evaluation : TRUE).score
        min_is_none == rc.min_key = "none"
        min_score == IF rc.min_key = "absent" THEN DefaultMinScore
                     ELSE IF min_is_none THEN Null
                     ELSE rc.min_evaluation_score
    IN IF rc.null THEN Unlocked(video)
       ELSE IF release_type = "free" THEN Unlocked(video)
       ELSE IF prereq_id = Null THEN Unlocked(video)
       ELSE IF release_type \in {"sequential", "completion"}
       THEN IF completed
            THEN [Unlocked(video) EXCEPT !.prerequisite_completed = "true"]
            ELSE [Unlocked(video) EXCEPT !.is_unlocked = FALSE,
                                         !.reason = "complete previous video",
                                         !.prerequisite_completed = "false"]
       ELSE IF release_type = "evaluation"
       THEN IF user_score # Null /\ min_is_none
            THEN [Unlocked(video) EXCEPT !.status = 500, !.is_unlocked = FALSE,
                                         !.reason = "TypeError"]
            ELSE IF user_score # Null /\ user_score >= min_score
            THEN [Unlocked(video) EXCEPT !.prerequisite_completed = "true",
                                         !.prerequisite_score = user_score,
                                         !.required_score = min_score]
            ELSE [Unlocked(video) EXCEPT !.is_unlocked = FALSE,
                                         !.reason = "minimum score",
                                         !.prerequisite_completed = "false",
                                         !.prerequisite_score = user_score,
                                         !.required_score = min_score]
       ELSE Unlocked(video)

(***************************************************************************)
(* SpecVideo: an admin creates and configures videos, a member watches and  *)
(* evaluates them and asks for their access status.                         *)
(***************************************************************************)
VideoUsers ==
    { [BlankUser(2, 1) EXCEPT !.role = ADMIN, !.is_tenant_owner = TRUE] }

\* Video 1, as create_video stores it with allow_evaluation set and no
\* gradual_release, is there from the start.
FirstVideo ==
    [id |-> 1, tenant_id |-> Null, uploaded_by |-> 2, allow_evaluation |-> TRUE,
     gradual_release |-> NoRelease]

InitVideo ==
    /\ users = VideoUsers
    /\ videos = {FirstVideo}
    /\ video_progress = {} /\ video_evaluations = {}
    /\ EmptyParts /\ EmptyResets /\ EmptyJourney
    /\ EmptyPlatform
    /\ audit_logs = {AuditEntry(2, "upload", "video", 1)}
    /\ last_id = [c \in Collections |-> IF c = "videos" THEN 1 ELSE 0]
    /\ documents = {} /\ locations = {}
    /\ resp = NoResp
    /\ perm_arg = NullPermissions /\ requests = NoRequests

\* routes/videos.py create_video (an external video: no file is read;
\* allow_evaluation keeps the default of its form field, False)
create_video ==
    \E cu \in users, gradual_release \in RawReleaseConfigs \cup {NoRelease} :
        LET me == UserView(cu)
            allow_evaluation == FALSE
            video_id == new_id("videos")
            video == [id |-> video_id, tenant_id |-> Null, uploaded_by |-> me.id,
                      allow_evaluation |-> allow_evaluation,
                      gradual_release |-> gradual_release]
        IN /\ video_id \in VideoIds
           /\ IF ~is_admin_or_formador(me)
              THEN /\ resp' = Response("create_video", me.id, 403, {})
                   /\ UNCHANGED <<videos, audit_logs, last_id>>
              ELSE /\ videos' = videos \cup {video}
                   /\ last_id' = [last_id EXCEPT !["videos"] = video_id]
                   /\ audit_logs' = log_action(me.id, "upload", "video", video_id)
                   /\ resp' = Response("create_video", me.id, 200, {video})
           /\ UNCHANGED <<users, video_progress, video_evaluations, offVideo>>

\* routes/videos.py update_video with a gradual_release in the body (the
\* other fields of the body are None); the requests are for the gated video
update_video ==
    \E cu \in users, video_id \in GatedVideoIds,
       gradual_release \in DumpedReleaseConfigs :
        LET me == UserView(cu)
            existing == { v \in videos : v.id = video_id }
            old == CHOOSE v \in existing : TRUE
            new == [old EXCEPT !.gradual_release = gradual_release]
        IN /\ IF ~is_admin_or_formador(me)
              THEN /\ resp' = Response("update_video", me.id, 403, {})
                   /\ UNCHANGED <<videos, audit_logs>>
              ELSE IF existing = {}
              THEN /\ resp' = Response("update_video", me.id, 404, {})
                   /\ UNCHANGED <<videos, audit_logs>>
              ELSE /\ videos' = (videos \ {old}) \cup {new}
                   /\ audit_logs' = log_action(me.id, "update", "video", video_id)
                   /\ resp' = Response("update_video", me.id, 200, {new})
           /\ UNCHANGED <<users, video_progress, video_evaluations, last_id, offVideo>>

\* routes/videos.py update_video_progress: an upsert keyed by (video, user);
\* the video is not looked up.  progress_seconds and last_watched, which no
\* handler reads in a decision, are left out of the record.
update_video_progress ==
    \E cu \in users, video_id \in VideoIds, completed \in BOOLEAN :
        LET old == { p \in video_progress :
                       p.video_id = video_id /\ p.user_id = cu.id }
            new == [video_id |-> video_id, user_id |-> cu.id,
                    completed |-> completed]
        IN /\ video_progress' = (video_progress \ old) \cup {new}
           /\ audit_logs' = IF completed
                            THEN log_action(cu.id, "complete", "video", video_id)
                            ELSE audit_logs
           /\ resp' = Response("update_video_progress", cu.id, 200, {new})
           /\ UNCHANGED <<users, videos, video_evaluations, last_id, offVideo>>

\* routes/videos.py create_or_update_video_evaluation
create_or_update_video_evaluation ==
    \E cu \in users, video_id \in VideoIds,
       score \in ScoreInputs :
        LET op == "create_or_update_video_evaluation"
            video == { v \in videos : v.id = video_id }
            existing == { e \in video_evaluations :
                            e.video_id = video_id /\ e.user_id = cu.id }
            old == CHOOSE e \in existing : TRUE
            updated == [old EXCEPT !.score = score]
            id == new_id("video_evaluations")
            evaluation == [id |-> id, video_id |-> video_id, user_id |-> cu.id,
                           score |-> score, tenant_id |-> cu.tenant_id]
        IN /\ IF video = {}
              THEN /\ resp' = Response(op, cu.id, 404, {})
                   /\ UNCHANGED <<video_evaluations, audit_logs, last_id>>
              ELSE IF ~(CHOOSE v \in video : TRUE).allow_evaluation
              THEN /\ resp' = Response(op, cu.id, 403, {})
                   /\ UNCHANGED <<video_evaluations, audit_logs, last_id>>
              ELSE IF score < MinScore \/ score > MaxScore
              THEN /\ resp' = Response(op, cu.id, 400, {})
                   /\ UNCHANGED <<video_evaluations, audit_logs, last_id>>
              ELSE IF existing # {}
              THEN /\ video_evaluations' = (video_evaluations \ {old}) \cup {updated}
                   /\ resp' = Response(op, cu.id, 200, {updated})
                   /\ UNCHANGED <<audit_logs, last_id>>
              ELSE /\ video_evaluations' = video_evaluations \cup {evaluation}
                   /\ last_id' = [last_id EXCEPT !["video_evaluations"] = id]
                   /\ audit_logs' = log_action(cu.id, "create", "video_evaluation", id)
                   /\ resp' = Response(op, cu.id, 200, {evaluation})
           /\ UNCHANGED <<users, videos, video_progress, offVideo>>

\* routes/videos.py get_video_access_status
get_video_access_status ==
    \E cu \in users, video_id \in VideoIds :
        LET op == "get_video_access_status"
            video == { v \in videos : v.id = video_id }
            access == check_video_access(CHOOSE v \in video : TRUE, cu.id)
        IN /\ resp' = IF video = {}
                      THEN Response(op, cu.id, 404, {})
                      ELSE Response(op, cu.id, access.status, {access})
           /\ UNCHANGED <<users, videos, video_progress, video_evaluations,
                          audit_logs, last_id, offVideo>>

NextVideo ==
    \/ create_video \/ update_video \/ update_video_progress
    \/ create_or_update_video_evaluation \/ get_video_access_status

SpecVideo == InitVideo /\ [][NextVideo]_vars

\* the access status the last request returned, the video it was asked for
\* and that video's prerequisite
AccessAsked == resp.op = "get_video_access_status" /\ resp.status # 404
Access == CHOOSE a \in resp.records : TRUE
AskedVideo == CHOOSE v \in videos : v.id = Access.video_id
AskedRelease == AskedVideo.gradual_release
PrereqCompleted ==
    \E p \in video_progress :
        /\ p.video_id = AskedRelease.prerequisite_video_id
        /\ p.user_id = resp.caller
        /\ p.completed
\* M: the configured minimum, 1 when none is set
RequiredMinimum ==
    IF AskedRelease.min_key = "int" THEN AskedRelease.min_evaluation_score
    ELSE DefaultMinScore
PrereqScoreReached ==
    \E e \in video_evaluations :
        /\ e.video_id = AskedRelease.prerequisite_video_id
        /\ e.user_id = resp.caller
        /\ e.score >= RequiredMinimum

\* C5: for a video whose release type is sequential or completion and that
\* names a prerequisite, the access status is unlocked exactly when the
\* caller's progress record on the prerequisite exists and is completed.
C5_SequentialUnlockIffCompleted ==
    (AccessAsked /\ ~AskedRelease.null
       /\ AskedRelease.release_type \in {"sequential", "completion"}
       /\ AskedRelease.prerequisite_video_id # Null)
    => /\ resp.status = 200
       /\ Access.is_unlocked <=> PrereqCompleted

\* C5 witness: a completion-gated video answered unlocked (the progress on
\* its prerequisite is completed).
C5_Witness ==
    /\ AccessAsked /\ ~AskedRelease.null
    /\ AskedRelease.release_type = "completion"
    /\ AskedRelease.prerequisite_video_id = 1
    /\ Access.is_unlocked

\* C5, the locked side: a sequential video answered locked while a progress
\* record on the prerequisite exists but is not completed.
C5_WitnessLocked ==
    /\ AccessAsked /\ ~AskedRelease.null
    /\ AskedRelease.release_type = "sequential"
    /\ AskedRelease.prerequisite_video_id = 1
    /\ ~Access.is_unlocked
    /\ \E p \in video_progress : p.video_id = 1 /\ p.user_id = resp.caller

\* C6: for a video whose release type is evaluation and that names a
\* prerequisite, the access status is unlocked exactly when the caller has an
\* evaluation on the prerequisite with score >= M (M = 1 when no minimum is
\* set), and otherwise it is locked with required score M.
C6_EvaluationUnlockIffScore ==
    (AccessAsked /\ ~AskedRelease.null
       /\ AskedRelease.release_type = "evaluation"
       /\ AskedRelease.prerequisite_video_id # Null)
    => /\ resp.status = 200
       /\ Access.is_unlocked <=> PrereqScoreReached
       /\ ~Access.is_unlocked => Access.required_score = RequiredMinimum

\* C6 where a minimum is configured as an integer or the key is missing:
\* there the evaluator does what C6 says.
C6_HoldsWithMinimumSet ==
    (AccessAsked /\ ~AskedRelease.null
       /\ AskedRelease.release_type = "evaluation"
       /\ AskedRelease.prerequisite_video_id # Null
       /\ AskedRelease.min_key # "none")
    => /\ resp.status = 200
       /\ Access.is_unlocked <=> PrereqScoreReached
       /\ ~Access.is_unlocked => Access.required_score = RequiredMinimum

(***************************************************************************)
(* routes/stage_participations.py, routes/stage_cycles.py and delete_user.  *)
(***************************************************************************)
\* models/stage_participation.py ParticipationStatus
ENROLLED == "enrolled"
APPROVED == "approved"
REPROVED == "reproved"
ParticipationStatus ==
    {ENROLLED, "in_progress", APPROVED, REPROVED, "withdrawn", "transferred"}

\* None in a string-valued field
NoneStr == "None"

\* datetime.isoformat(): the text of an instant, never empty
isoformat(t) == ToString(t)

\* full_name: str is required of every writer of a user document and
\* update_user drops a None; a user's name is written as the user's id
full_name(user) == user.id

\* the values a request gives completion_date: None or a date
SuppliedDate == "2024-12-31"
CompletionInputs == {NoneStr, SuppliedDate}

\* update_participation's completion_date without the stamp of the current
\* time
update_completion_date_as_given(stored, decided, completion_date, t) ==
    IF completion_date # NoneStr THEN completion_date ELSE stored

\* routes/stage_participations.py update_participation, the completion_date
\* that $set leaves: a value other than None goes into update_dict, and the
\* current time replaces a falsy one when the status becomes approved or
\* reproved
update_completion_date(stored, decided, completion_date, t) ==
    IF decided /\ completion_date \in {NoneStr, ""} THEN isoformat(t)
    ELSE IF completion_date # NoneStr THEN completion_date
    ELSE stored

\* max_participants: Optional[int] = None; None is NoneInt here (negative
\* capacities are left out)
NoneInt == -1

\* the response of a handler of this section, with the arguments it was
\* called with
NoArgs == [user_id |-> Null, cycle_id |-> Null, participation_id |-> Null]
Reply(op, caller, args, status, detail, records) ==
    [op |-> op, caller |-> caller, args |-> args, status |-> status,
     detail |-> detail, records |-> records]

\* the audit log has room for one more entry
LogRoom(entry) == entry \in audit_logs \/ Cardinality(audit_logs) < MaxAuditEntries

\* a find_one on db.users / db.stage_cycles as create_participation builds
\* it: the tenant_id key is added only when the caller's tenant_id is truthy
find_in_tenant(collection, id, tenant_id) ==
    { d \in collection :
        d.id = id /\ (tenant_id # Null => d.tenant_id = tenant_id) }

\* everything delete_user leaves alone
offDeleteUser == <<documents, locations, last_id, videoVars, partVars,
                   resetVars, user_journey, now, perm_arg, requests, platformVars>>

\* routes/users.py delete_user: the user document goes, nothing that refers
\* to it does
delete_user ==
    \E cu \in users, user_id \in {u.id : u \in users} :
        LET me == UserView(cu)
            current_roles == get_user_roles(me)
            args == [NoArgs EXCEPT !.user_id = user_id]
            found == { u \in users :
                         /\ u.id = user_id
                         /\ (SUPERADMIN \notin current_roles /\ me.tenant_id # Null)
                              => u.tenant_id = me.tenant_id }
            existing == CHOOSE u \in found : TRUE
            entry == AuditEntry(me.id, "delete", "user", user_id)
            Fail(status, detail) ==
                /\ resp' = Reply("delete_user", me.id, args, status, detail, {})
                /\ UNCHANGED <<users, audit_logs>>
        IN /\ IF ~is_admin(me) THEN Fail(403, "Admin access required")
              ELSE IF found = {} THEN Fail(404, "User not found")
              ELSE IF user_id = me.id THEN Fail(400, "Cannot delete yourself")
              ELSE IF existing.is_tenant_owner /\ SUPERADMIN \notin current_roles
              THEN Fail(403, "Cannot delete tenant owner")
              ELSE /\ LogRoom(entry)
                   /\ users' = users \ {existing}
                   /\ audit_logs' = log_action(me.id, "delete", "user", user_id)
                   /\ resp' = Reply("delete_user", me.id, args, 200,
                                    "User deleted successfully", {})
           /\ UNCHANGED offDeleteUser

\* the values a request may give max_participants
CapacityInputs == {NoneInt, 0, 1, 2}

\* routes/stage_cycles.py update_cycle (of the body only max_participants is
\* given; the other fields are None and dropped from update_dict)
update_cycle ==
    \E cu \in users, cycle_id \in {1}, max_participants \in CapacityInputs :
        LET me == UserView(cu)
            f == get_tenant_filter(me)
            args == [NoArgs EXCEPT !.cycle_id = cycle_id]
            found == { c \in stage_cycles : in_filter(f, c) /\ c.id = cycle_id }
            existing == CHOOSE c \in found : TRUE
            updated == IF max_participants = NoneInt THEN existing
                       ELSE [existing EXCEPT !.max_participants = max_participants]
            entry == AuditEntry(me.id, "update", "stage_cycle", cycle_id)
            Fail(status, detail) ==
                /\ resp' = Reply("update_cycle", me.id, args, status, detail, {})
                /\ UNCHANGED <<stage_cycles, audit_logs>>
        IN /\ IF ~is_admin(me) THEN Fail(403, "Admin access required")
              ELSE IF f.status # 200 THEN Fail(f.status, "User not associated with any tenant")
              ELSE IF found = {} THEN Fail(404, "Cycle not found")
              ELSE /\ LogRoom(entry)
                   /\ stage_cycles' = (stage_cycles \ {existing}) \cup {updated}
                   /\ audit_logs' = log_action(me.id, "update", "stage_cycle", cycle_id)
                   /\ resp' = Reply("update_cycle", me.id, args, 200, "", {updated})
           /\ UNCHANGED <<users, stage_participations, last_id, offPart>>

\* the new participation is rejected whatever the stored ones are
create_participation_checks_no_duplicate(me, user_id, cycle_id) ==
    LET tenant_id == me.tenant_id
        user == find_in_tenant(users, user_id, tenant_id)
        cycles == find_in_tenant(stage_cycles, cycle_id, tenant_id)
        cycle == CHOOSE c \in cycles : TRUE
        current_count ==
            Cardinality({ p \in stage_participations : p.cycle_id = cycle_id })
    IN IF ~is_admin(me) THEN [status |-> 403, detail |-> "Admin access required"]
       ELSE IF user = {} THEN [status |-> 404, detail |-> "User not found"]
       ELSE IF cycles = {} THEN [status |-> 404, detail |-> "Cycle not found"]
       ELSE IF /\ cycle.max_participants # NoneInt /\ cycle.max_participants # 0
               /\ current_count >= cycle.max_participants
       THEN [status |-> 400, detail |-> "Cycle is full"]
       ELSE [status |-> 200, detail |-> ""]

\* routes/stage_participations.py create_participation, up to the insert:
\* the response the checks decide, 200 when all pass
create_participation_checks(me, user_id, cycle_id) ==
    LET tenant_id == me.tenant_id
        user == find_in_tenant(users, user_id, tenant_id)
        cycles == find_in_tenant(stage_cycles, cycle_id, tenant_id)
        cycle == CHOOSE c \in cycles : TRUE
        existing == { p \in stage_participations :
                        p.user_id = user_id /\ p.cycle_id = cycle_id }
        current_count ==
            Cardinality({ p \in stage_participations : p.cycle_id = cycle_id })
    IN IF ~is_admin(me) THEN [status |-> 403, detail |-> "Admin access required"]
       ELSE IF user = {} THEN [status |-> 404, detail |-> "User not found"]
       ELSE IF cycles = {} THEN [status |-> 404, detail |-> "Cycle not found"]
       ELSE IF existing # {}
       THEN [status |-> 400, detail |-> "User already enrolled in this cycle"]
       ELSE IF /\ cycle.max_participants # NoneInt /\ cycle.max_participants # 0
               /\ current_count >= cycle.max_participants
       THEN [status |-> 400, detail |-> "Cycle is full"]
       ELSE [status |-> 200, detail |-> ""]

\* routes/stage_participations.py create_participation
create_participation ==
    \E cu \in users, user_id \in 1..3, cycle_id \in {1, 2} :
        LET me == UserView(cu)
            args == [NoArgs EXCEPT !.user_id = user_id, !.cycle_id = cycle_id]
            checks == create_participation_checks(me, user_id, cycle_id)
            id == new_id("stage_participations")
            participation ==
                [id |-> id, tenant_id |-> me.tenant_id, user_id |-> user_id,
                 cycle_id |-> cycle_id, status |-> ENROLLED,
                 completion_date |-> NoneStr, approved_by_id |-> Null,
                 approved_by_name |-> Null]
            entry == AuditEntry(me.id, "create", "stage_participation", id)
        IN /\ IF checks.status # 200
              THEN /\ resp' = Reply("create_participation", me.id, args,
                                    checks.status, checks.detail, {})
                   /\ UNCHANGED <<stage_participations, audit_logs, last_id>>
              ELSE /\ last_id["stage_participations"] < MaxParticipations
                   /\ LogRoom(entry)
                   /\ stage_participations' = stage_participations \cup {participation}
                   /\ last_id' = [last_id EXCEPT !["stage_participations"] = id]
                   /\ audit_logs' = log_action(me.id, "create", "stage_participation", id)
                   /\ resp' = Reply("create_participation", me.id, args, 200, "",
                                    {participation})
           /\ UNCHANGED <<users, stage_cycles, offPart>>

\* what update_participation, approve_participation, reprove_participation
\* and delete_participation do first: require_admin, get_tenant_filter and
\* the find_one of the participation
find_participation(me, participation_id) ==
    LET f == get_tenant_filter(me)
        found == { p \in stage_participations :
                     in_filter(f, p) /\ p.id = participation_id }
    IN IF ~is_admin(me)
       THEN [status |-> 403, detail |-> "Admin access required", found |-> {}]
       ELSE IF f.status # 200
       THEN [status |-> f.status, detail |-> "User not associated with any tenant",
             found |-> {}]
       ELSE IF found = {}
       THEN [status |-> 404, detail |-> "Participation not found", found |-> {}]
       ELSE [status |-> 200, detail |-> "", found |-> found]

\* routes/stage_participations.py update_participation (notes and
\* evaluation_notes are free text and left out)
update_participation ==
    \E cu \in users, participation_id \in 1..MaxParticipations,
       status \in ParticipationStatus \cup {Absent},
       completion_date \in CompletionInputs :
        LET me == UserView(cu)
            args == [user_id |-> Null, cycle_id |-> Null,
                     participation_id |-> participation_id,
                     status |-> status, completion_date |-> completion_date]
            lookup == find_participation(me, participation_id)
            existing == CHOOSE p \in lookup.found : TRUE
            decided == status \in {APPROVED, REPROVED}
            written == {[existing EXCEPT
                  !.status = IF status = Absent THEN @ ELSE status,
                  !.completion_date =
                      update_completion_date(@, decided, completion_date, now),
                  !.approved_by_id = IF decided THEN me.id ELSE @,
                  !.approved_by_name = IF decided THEN full_name(me) ELSE @]}
            entry == AuditEntry(me.id, "update", "stage_participation",
                                participation_id)
        IN /\ IF lookup.status # 200
              THEN /\ resp' = Reply("update_participation", me.id, args, lookup.status,
                                    lookup.detail, {})
                   /\ UNCHANGED <<stage_participations, audit_logs>>
              ELSE /\ LogRoom(entry)
                   /\ stage_participations' =
                          (stage_participations \ {existing}) \cup written
                   /\ audit_logs' = log_action(me.id, "update",
                                               "stage_participation", participation_id)
                   /\ resp' = Reply("update_participation", me.id, args, 200, "", written)
           /\ UNCHANGED <<users, stage_cycles, last_id, offPart>>

\* routes/stage_participations.py approve_participation
approve_participation ==
    \E cu \in users, participation_id \in 1..MaxParticipations :
        LET me == UserView(cu)
            args == [NoArgs EXCEPT !.participation_id = participation_id]
            lookup == find_participation(me, participation_id)
            existing == CHOOSE p \in lookup.found : TRUE
            written == {[existing EXCEPT !.status = APPROVED,
                                         !.completion_date = isoformat(now),
                                         !.approved_by_id = me.id,
                                         !.approved_by_name = full_name(me)]}
            entry == AuditEntry(me.id, "approve", "stage_participation",
                                participation_id)
        IN /\ IF lookup.status # 200
              THEN /\ resp' = Reply("approve_participation", me.id, args, lookup.status,
                                    lookup.detail, {})
                   /\ UNCHANGED <<stage_participations, audit_logs>>
              ELSE /\ LogRoom(entry)
                   /\ stage_participations' =
                          (stage_participations \ {existing}) \cup written
                   /\ audit_logs' = log_action(me.id, "approve",
                                               "stage_participation", participation_id)
                   /\ resp' = Reply("approve_participation", me.id, args, 200, "", written)
           /\ UNCHANGED <<users, stage_cycles, last_id, offPart>>

\* routes/stage_participations.py reprove_participation
reprove_participation ==
    \E cu \in users, participation_id \in 1..MaxParticipations :
        LET me == UserView(cu)
            args == [NoArgs EXCEPT !.participation_id = participation_id]
            lookup == find_participation(me, participation_id)
            existing == CHOOSE p \in lookup.found : TRUE
            written == {[existing EXCEPT !.status = REPROVED,
                                         !.completion_date = isoformat(now),
                                         !.approved_by_id = me.id,
                                         !.approved_by_name = full_name(me)]}
            entry == AuditEntry(me.id, "reprove", "stage_participation",
                                participation_id)
        IN /\ IF lookup.status # 200
              THEN /\ resp' = Reply("reprove_participation", me.id, args, lookup.status,
                                    lookup.detail, {})
                   /\ UNCHANGED <<stage_participations, audit_logs>>
              ELSE /\ LogRoom(entry)
                   /\ stage_participations' =
                          (stage_participations \ {existing}) \cup written
                   /\ audit_logs' = log_action(me.id, "reprove",
                                               "stage_participation", participation_id)
                   /\ resp' = Reply("reprove_participation", me.id, args, 200, "", written)
           /\ UNCHANGED <<users, stage_cycles, last_id, offPart>>

\* routes/stage_participations.py delete_participation
delete_participation ==
    \E cu \in users, participation_id \in 1..MaxParticipations :
        LET me == UserView(cu)
            args == [NoArgs EXCEPT !.participation_id = participation_id]
            lookup == find_participation(me, participation_id)
            existing == CHOOSE p \in lookup.found : TRUE
            written == {}
            entry == AuditEntry(me.id, "delete", "stage_participation",
                                participation_id)
        IN /\ IF lookup.status # 200
              THEN /\ resp' = Reply("delete_participation", me.id, args, lookup.status,
                                    lookup.detail, {})
                   /\ UNCHANGED <<stage_participations, audit_logs>>
              ELSE /\ LogRoom(entry)
                   /\ stage_participations' =
                          (stage_participations \ {existing}) \cup written
                   /\ audit_logs' = log_action(me.id, "delete",
                                               "stage_participation", participation_id)
                   /\ resp' = Reply("delete_participation", me.id, args, 200, "", written)
           /\ UNCHANGED <<users, stage_cycles, last_id, offPart>>

(***************************************************************************)
(* SpecPart: enrollment into one cycle of tenant 1.                         *)
(***************************************************************************)
\* the owner of tenant 1, a member of tenant 1 and the owner of tenant 2
PartUsers ==
    { [BlankUser(1, 1) EXCEPT !.role = ADMIN, !.is_tenant_owner = TRUE],
      [BlankUser(2, 1) EXCEPT !.has_roles = TRUE, !.roles = {USER}],
      [BlankUser(3, 2) EXCEPT !.role = ADMIN, !.is_tenant_owner = TRUE] }

\* the cycle create_cycle stored for the owner of tenant 1, without limit
FirstCycle == [id |-> 1, tenant_id |-> 1, max_participants |-> NoneInt]

InitPart ==
    /\ users = PartUsers
    /\ stage_cycles = {FirstCycle}
    /\ stage_participations = {}
    /\ audit_logs = {AuditEntry(1, "create", "stage_cycle", 1)}
    /\ last_id = [c \in Collections |-> 0]
    /\ documents = {} /\ locations = {}
    /\ videos = {} /\ video_progress = {} /\ video_evaluations = {}
    /\ EmptyResets /\ EmptyJourney
    /\ EmptyPlatform
    /\ resp = NoResp
    /\ perm_arg = NullPermissions /\ requests = NoRequests

NextPart ==
    \/ update_cycle
    \/ create_participation
    \/ update_participation
    \/ approve_participation
    \/ reprove_participation
    \/ delete_participation
    \/ delete_user

SpecPart == InitPart /\ [][NextPart]_vars

\* the user document of the caller of request r
CallerOf(r) == UserView(CHOOSE u \in users : u.id = r.caller)

\* the (user_id, cycle_id) pair of request r already has a participation
PairEnrolled(r) ==
    \E p \in stage_participations :
        p.user_id = r.args.user_id /\ p.cycle_id = r.args.cycle_id

\* the caller of request r finds the user and the cycle r names
PairVisible(r) ==
    /\ find_in_tenant(users, r.args.user_id, CallerOf(r).tenant_id) # {}
    /\ find_in_tenant(stage_cycles, r.args.cycle_id, CallerOf(r).tenant_id) # {}

\* at most one participation per (user_id, cycle_id) pair
OnePerPair ==
    \A p, q \in stage_participations :
        (p.user_id = q.user_id /\ p.cycle_id = q.cycle_id) => p = q

C7_WitnessDeleted ==
    /\ resp.op = "create_participation" /\ resp.status = 404
    /\ resp.caller = 1 /\ PairEnrolled(resp)

\* the cycle request r names, and the participations it has
CycleOf(r) == CHOOSE c \in stage_cycles : c.id = r.args.cycle_id
CountOf(r) ==
    Cardinality({ p \in stage_participations : p.cycle_id = r.args.cycle_id })

C8_PositiveCapacityEnforced ==
    [][(resp'.op = "create_participation" /\ is_admin(CallerOf(resp'))
          /\ PairVisible(resp') /\ ~PairEnrolled(resp')
          /\ CycleOf(resp').max_participants >= 1)
       => IF CountOf(resp') >= CycleOf(resp').max_participants
          THEN /\ resp'.status = 400 /\ resp'.detail = "Cycle is full"
               /\ UNCHANGED stage_participations
          ELSE /\ resp'.status = 200
               /\ stage_participations' = stage_participations \cup resp'.records
               /\ resp'.records # {}]_vars

(***************************************************************************)
(* routes/auth.py: password reset.                                          *)
(***************************************************************************)
\* utils/security.py create_reset_token: timedelta(hours=1), in seconds
ResetExpireSeconds == 3600
\* config.py ACCESS_TOKEN_EXPIRE_HOURS = 24, in seconds
AccessExpireSeconds == 86400

\* hash_password: bcrypt salts the password with a random salt
Salts == {1, 2}
hash_password(password, salt) == [pw |-> password, salt |-> salt]

\* A JWT is its payload and whether JWT_SECRET signed it; the exp claim is
\* in whole seconds, so two tokens made for one user within one second are
\* the same string.
create_reset_token(user_id) ==
    [user_id |-> user_id, exp |-> now + ResetExpireSeconds, type |-> "reset",
     signed |-> TRUE]

RefreshExpireSeconds == 604800

\* the `roles` argument of create_access_token: a list of roles, or one role
OneRole(role) == [is_list |-> FALSE, value |-> role]
RoleList(roles) == [is_list |-> TRUE, value |-> roles]

\* create_access_token: the payload key is `roles`, always a list
create_access_token(user_id, roles, tenant_id) ==
    [user_id |-> user_id,
     roles |-> IF roles.is_list THEN roles.value ELSE {roles.value},
     tenant_id |-> tenant_id,
     exp |-> now + AccessExpireSeconds, type |-> "access", signed |-> TRUE]

create_refresh_token(user_id) ==
    [user_id |-> user_id, exp |-> now + RefreshExpireSeconds, type |-> "refresh",
     signed |-> TRUE]

\* every password is taken for the right one
verify_password_any(password, hashed) == TRUE

\* verify_password: bcrypt.checkpw
verify_password(password, hashed) == hashed.pw = password

\* utils/security.py decode_token: 401 for a bad signature or an exp that
\* has passed, else the payload
decode_token(token) ==
    IF ~token.signed THEN [status |-> 401, detail |-> "Invalid token"]
    ELSE IF token.exp <= now THEN [status |-> 401, detail |-> "Token expired"]
    ELSE [status |-> 200, detail |-> ""]

\* the record is left as it was
mark_used_forgotten(record) == record

\* confirm_password_reset, "Mark token as used"
mark_used(record) == [record EXCEPT !.used = TRUE]

\* the response of a handler of routes/auth.py, with the token of the call
AuthReply(op, token, status, detail) ==
    [op |-> op, token |-> token, status |-> status, detail |-> detail]
NoToken == [user_id |-> Null, exp |-> 0, type |-> "none", signed |-> FALSE]

\* the instants requests arrive at: the first, one a second later, one when
\* the tokens of the first expire and one a second after that
Instants == {0, 1, ResetExpireSeconds, ResetExpireSeconds + 1}

\* time passes
Tick ==
    \E t \in Instants :
        /\ t > now
        /\ now' = t
        /\ UNCHANGED <<users, audit_logs, last_id, password_resets, spent, resp,
                       contentVars, videoVars, partVars, user_journey, perm_arg, requests,
                       platformVars>>

\* an unknown e-mail address is answered 404
request_password_reset_reply_404(user_found) ==
    IF user_found
    THEN AuthReply("request_password_reset", NoToken, 200,
                   "If the email exists, a reset link will be sent")
    ELSE AuthReply("request_password_reset", NoToken, 404, "User not found")

\* what request_password_reset returns, with and without a user found
request_password_reset_reply(user_found) ==
    IF user_found
    THEN AuthReply("request_password_reset", NoToken, 200,
                   "If the email exists, a reset link will be sent")
    ELSE AuthReply("request_password_reset", NoToken, 200,
                   "If the email exists, a reset link will be sent")

\* routes/auth.py request_password_reset (tenant_id: the tenant the slug
\* names, Null without slug or for an unknown slug); the token leaves by
\* e-mail only
request_password_reset ==
    \E email \in 2..3, tenant_id \in {Null, 1, 2} :
        LET found == { u \in users :
                         /\ u.email = email
                         /\ tenant_id # Null => u.tenant_id = tenant_id }
            user == CHOOSE u \in found : TRUE
            token == create_reset_token(user.id)
            record == [user_id |-> user.id, token |-> token, used |-> FALSE]
        IN /\ resp' = request_password_reset_reply(found # {})
           /\ IF found = {}
              THEN UNCHANGED <<password_resets, audit_logs, spent>>
              ELSE /\ password_resets' =
                          { r \in password_resets : r.user_id # user.id }
                              \cup {record}
                   /\ audit_logs' = log_action(user.id, "password_reset_request",
                                               "user", user.id)
                   /\ spent' = spent \ {token}
           /\ UNCHANGED <<users, last_id, now, offReset>>

\* the tokens a caller may send: the reset tokens of user 2 of every second,
\* an unexpired access token and a reset token signed with another secret
ConfirmTokens ==
    [user_id : {2},
     exp : {t + ResetExpireSeconds : t \in Instants \ {ResetExpireSeconds + 1}},
     type : {"reset"}, signed : {TRUE}]
    \cup {[user_id |-> 2, exp |-> AccessExpireSeconds, type |-> "access", signed |-> TRUE],
          [user_id |-> 2, exp |-> RefreshExpireSeconds, type |-> "refresh", signed |-> TRUE],
          [user_id |-> 2, exp |-> 2 * ResetExpireSeconds, type |-> "reset", signed |-> FALSE]}

\* routes/auth.py confirm_password_reset
confirm_password_reset ==
    \E token \in ConfirmTokens, new_password \in {1, 2}, salt \in Salts :
        LET payload == decode_token(token)
            reset_record == { r \in password_resets :
                                /\ r.user_id = token.user_id
                                /\ r.token = token /\ ~r.used }
            record == CHOOSE r \in reset_record : TRUE
            target == { u \in users : u.id = token.user_id }
            updated == { [u EXCEPT !.password = hash_password(new_password, salt),
                                   !.updated_at = now] : u \in target }
            Fail(detail) ==
                /\ resp' = AuthReply("confirm_password_reset", token, 400, detail)
                /\ UNCHANGED <<users, password_resets, audit_logs, spent>>
        IN /\ IF payload.status # 200 THEN Fail("Invalid or expired token")
              ELSE IF token.type # "reset" THEN Fail("Invalid token type")
              ELSE IF reset_record = {} THEN Fail("Invalid or already used token")
              ELSE /\ users' = (users \ target) \cup updated
                   /\ password_resets' =
                          (password_resets \ {record}) \cup {mark_used(record)}
                   /\ IF target = {}
                      THEN \* user["id"] of None: the handler raises
                           /\ resp' = AuthReply("confirm_password_reset", token,
                                                500, "TypeError")
                           /\ UNCHANGED <<audit_logs, spent>>
                      ELSE /\ audit_logs' = log_action(token.user_id,
                                  "password_reset_confirm", "user", token.user_id)
                           /\ spent' = spent \cup {token}
                           /\ resp' = AuthReply("confirm_password_reset", token,
                                                200, "Password reset successful")
           /\ UNCHANGED <<last_id, now, offReset>>

(***************************************************************************)
(* SpecReset: password resets of the member of tenant 1.                    *)
(***************************************************************************)
ResetUsers ==
    { [BlankUser(1, 1) EXCEPT !.role = ADMIN, !.is_tenant_owner = TRUE,
                              !.password = hash_password(1, 1)],
      [BlankUser(2, 1) EXCEPT !.has_roles = TRUE, !.roles = {USER},
                              !.password = hash_password(1, 1)] }

InitReset ==
    /\ users = ResetUsers
    /\ password_resets = {} /\ spent = {}
    /\ now = 0 /\ user_journey = {}
    /\ audit_logs = {}
    /\ last_id = [c \in Collections |-> 0]
    /\ documents = {} /\ locations = {}
    /\ videos = {} /\ video_progress = {} /\ video_evaluations = {}
    /\ EmptyParts
    /\ EmptyPlatform
    /\ resp = NoResp
    /\ perm_arg = NullPermissions /\ requests = NoRequests

NextReset ==
    \/ Tick
    \/ request_password_reset
    \/ confirm_password_reset
    \/ delete_user

SpecReset == InitReset /\ [][NextReset]_vars

\* the step is a confirm_password_reset call sending a token that a confirm
\* has accepted and no request has issued again since
SpentTokenConfirmed ==
    /\ resp' # resp
    /\ resp'.op = "confirm_password_reset"
    /\ resp'.token \in spent

\* C9 as stated: once a confirm with a token has succeeded, every later
\* confirm with that token fails with 400 'Invalid or already used token'
\* and leaves the password hash unchanged.
C9_SecondConfirmAlreadyUsed ==
    [][SpentTokenConfirmed
       => /\ resp'.status = 400
          /\ resp'.detail = "Invalid or already used token"
          /\ UNCHANGED users]_vars

\* C9 amended: once a confirm with a token has succeeded, every later
\* confirm with that token (no request having issued the same token again)
\* fails with 400 and leaves the password hash unchanged; the detail is
\* 'Invalid or already used token' while the token has not expired and
\* 'Invalid or expired token' afterwards.
C9_SecondConfirmRejected ==
    [][SpentTokenConfirmed
       => /\ resp'.status = 400
          /\ resp'.detail = IF resp'.token.exp > now
                            THEN "Invalid or already used token"
                            ELSE "Invalid or expired token"
          /\ UNCHANGED <<users, password_resets>>]_vars

\* C9 witness: a token that a confirm accepted is sent again and answered
\* 400 'Invalid or already used token'.
C9_Witness ==
    /\ resp.op = "confirm_password_reset" /\ resp.token \in spent
    /\ resp.status = 400 /\ resp.detail = "Invalid or already used token"
    /\ \E u \in users : u.id = resp.token.user_id /\ u.password # hash_password(1, 1)

\* C9, after the hour: the accepted token is sent again and answered 400
\* 'Invalid or expired token'.
C9_WitnessExpired ==
    /\ resp.op = "confirm_password_reset" /\ resp.token \in spent
    /\ resp.status = 400 /\ resp.detail = "Invalid or expired token"

(***************************************************************************)
(* routes/users.py: update_user.                                            *)
(***************************************************************************)
\* models/user.py UserUpdate: every field Optional, None by default.  Of the
\* fields that update_user only copies (full_name, birth_date, phone, cpf,
\* location_id, function_id, formador_id, status, photo_url, ...) the body
\* here has location_id; roles is a list or None.
NoRoles == [given |-> FALSE, list |-> {}]
RolesInputs == {NoRoles, [given |-> TRUE, list |-> {USER}]}
NoneBody ==
    [email |-> Null, location_id |-> Null, formative_stage_id |-> Null,
     roles |-> NoRoles, password |-> Null, cpf |-> Null]

\* the empty string in an identifier-valued field: falsy as None is, but
\* not None
EmptyString == -1
falsy(v) == v \in {Null, EmptyString}

\* bodies that set one field: an empty roles list, the superadmin role, a
\* CPF, an empty formative_stage_id
OneFieldBodies ==
    { [NoneBody EXCEPT !.roles = [given |-> TRUE, list |-> {}]],
      [NoneBody EXCEPT !.roles = [given |-> TRUE, list |-> {SUPERADMIN}]],
      [NoneBody EXCEPT !.cpf = 1],
      [NoneBody EXCEPT !.formative_stage_id = EmptyString] }

UserUpdate ==
    [email : {Null, 3},
     location_id : {Null},
     formative_stage_id : {Null, 2},
     roles : RolesInputs,
     password : {Null, 2},
     cpf : {Null}]
    \cup OneFieldBodies

\* the fields of the body are written whether they are None or not
set_update_dict_with_none(existing, user_data, salt, t) ==
    [existing EXCEPT
        !.email = user_data.email,
        !.location_id = user_data.location_id,
        !.formative_stage_id = user_data.formative_stage_id,
        !.has_roles = @ \/ user_data.roles.given,
        !.roles = IF user_data.roles.given THEN user_data.roles.list ELSE @,
        !.password = IF user_data.password = Null THEN @
                     ELSE hash_password(user_data.password, salt),
        !.cpf = user_data.cpf,
        !.updated_at = t]

\* update_user: update_dict (the fields of the body that are not None, the
\* password hashed, updated_at) as $set writes it on the user document
set_update_dict(existing, user_data, salt, t) ==
    [existing EXCEPT
        !.email = IF user_data.email = Null THEN @ ELSE user_data.email,
        !.location_id = IF user_data.location_id = Null THEN @
                        ELSE user_data.location_id,
        !.formative_stage_id = IF user_data.formative_stage_id = Null THEN @
                               ELSE user_data.formative_stage_id,
        !.has_roles = @ \/ user_data.roles.given,
        !.roles = IF user_data.roles.given THEN user_data.roles.list ELSE @,
        !.password = IF user_data.password = Null THEN @
                     ELSE hash_password(user_data.password, salt),
        !.cpf = IF user_data.cpf = Null THEN @ ELSE user_data.cpf,
        !.updated_at = t]

\* the record keeps the stage the user is moved to as the one left
record_journey_transition_reversed(id, user_id, from_stage_id, to_stage_id, tenant_id, changed_by) ==
    [id |-> id, tenant_id |-> tenant_id, user_id |-> user_id,
     from_stage_id |-> to_stage_id, to_stage_id |-> from_stage_id,
     changed_by_id |-> changed_by.id]

\* routes/users.py record_journey_transition: the journey record inserted
record_journey_transition(id, user_id, from_stage_id, to_stage_id, tenant_id, changed_by) ==
    [id |-> id, tenant_id |-> tenant_id, user_id |-> user_id,
     from_stage_id |-> from_stage_id, to_stage_id |-> to_stage_id,
     changed_by_id |-> changed_by.id]

\* the salts hash_password may draw: it is called only for a body that
\* carries a password
SaltsFor(user_data) == IF user_data.password = Null THEN {1} ELSE Salts

\* routes/users.py update_user, with record_journey_transition.  A call
\* that writes reads datetime.now(), whose isoformat has microseconds: it is
\* later than the reading of every call before it.
update_user ==
    \E cu \in users, user_id \in 1..3, user_data \in UserUpdate :
      \E salt \in SaltsFor(user_data) :
        LET me == UserView(cu)
            current_roles == get_user_roles(me)
            is_admin_user == current_roles \cap {ADMIN, SUPERADMIN} # {}
            args == [user_id |-> user_id, empty_body |-> user_data = NoneBody]
            found == { u \in users :
                         /\ u.id = user_id
                         /\ (SUPERADMIN \notin current_roles /\ me.tenant_id # Null)
                              => u.tenant_id = me.tenant_id }
            existing == CHOOSE u \in found : TRUE
            existing_email ==
                { u \in users :
                    /\ u.email = user_data.email
                    /\ existing.tenant_id # Null => u.tenant_id = existing.tenant_id }
            new_stage_id == user_data.formative_stage_id
            old_stage_id == existing.formative_stage_id
            journey_id == new_id("user_journey")
            journey_record ==
                record_journey_transition(journey_id, user_id, old_stage_id,
                    new_stage_id, existing.tenant_id, me)
            t == now + 1
            updated == set_update_dict(existing, user_data, salt, t)
            Fail(status, detail) ==
                /\ resp' = Reply("update_user", me.id, args, status, detail, {})
                /\ UNCHANGED <<users, user_journey, audit_logs, last_id, now>>
        IN /\ IF ~is_admin_user /\ me.id # user_id
              THEN Fail(403, "Permission denied")
              ELSE IF ~is_admin_user /\ user_data.roles.list # {}
              THEN Fail(403, "Cannot change roles")
              ELSE IF found = {} THEN Fail(404, "User not found")
              ELSE IF /\ existing.is_tenant_owner /\ SUPERADMIN \notin current_roles
                      /\ user_data.roles.list # {}
                      /\ ADMIN \notin user_data.roles.list
              THEN Fail(403, "Cannot change role of tenant owner")
              ELSE IF /\ user_data.email # Null
                      /\ user_data.email # existing.email
                      /\ existing_email # {}
              THEN Fail(400, "Email already registered")
              ELSE /\ now < MaxUpdates
                   /\ now' = t
                   /\ IF ~falsy(new_stage_id) /\ new_stage_id # old_stage_id
                      THEN /\ last_id["user_journey"] < MaxJourney
                           /\ user_journey' = user_journey \cup {journey_record}
                           /\ last_id' = [last_id EXCEPT !["user_journey"] = journey_id]
                      ELSE UNCHANGED <<user_journey, last_id>>
                   /\ users' = (users \ {existing}) \cup {updated}
                   /\ audit_logs' = log_action(me.id, "update", "user", user_id)
                   /\ resp' = Reply("update_user", me.id, args, 200, "",
                                    {UserView(updated)})
           /\ UNCHANGED offUser

(***************************************************************************)
(* SpecUser: updates of the owner and of a member of tenant 1.              *)
(***************************************************************************)
UserUsers ==
    { [BlankUser(1, 1) EXCEPT !.role = ADMIN, !.is_tenant_owner = TRUE,
                              !.password = hash_password(1, 1)],
      [BlankUser(2, 1) EXCEPT !.has_roles = TRUE, !.roles = {USER},
                              !.formative_stage_id = 1,
                              !.password = hash_password(1, 1)] }

InitUser ==
    /\ users = UserUsers
    /\ user_journey = {} /\ now = 0
    /\ audit_logs = {}
    /\ last_id = [c \in Collections |-> 0]
    /\ documents = {} /\ locations = {}
    /\ videos = {} /\ video_progress = {} /\ video_evaluations = {}
    /\ EmptyParts /\ EmptyResets
    /\ EmptyPlatform
    /\ resp = NoResp
    /\ perm_arg = NullPermissions /\ requests = NoRequests

NextUser ==
    \/ update_user

SpecUser == InitUser /\ [][NextUser]_vars

\* the step is an update_user call that was carried out (200) and whose body
\* has every field None
EmptyUpdateDone ==
    /\ resp'.op = "update_user" /\ resp'.status = 200
    /\ resp'.args.empty_body

\* C10: an authorized update_user call whose body has every field None
\* changes no field of the target user except updated_at, changes no other
\* user and appends no user_journey record.
C10_EmptyUpdateKeepsFields ==
    [][EmptyUpdateDone
       => LET old == CHOOSE u \in users : u.id = resp'.args.user_id
              new == CHOOSE u \in users' : u.id = resp'.args.user_id
          IN /\ users' = (users \ {old})
                            \cup {[old EXCEPT !.updated_at = new.updated_at]}
             /\ UNCHANGED user_journey]_vars

\* C10 witness: an all-None update of a user whose e-mail an earlier update
\* had changed was carried out and stamped updated_at.
C10_Witness ==
    /\ resp.op = "update_user" /\ resp.status = 200 /\ resp.args.empty_body
    /\ \E u \in users : /\ u.id = resp.args.user_id
                        /\ u.email = 3 /\ u.updated_at = now /\ now = MaxUpdates

(***************************************************************************)
(* SpecFilter: get_tenant_filter on every shape of user document.           *)
(***************************************************************************)
\* user documents with and without legacy role, roles list and tenant
FilterUsers ==
    { [BlankUser(1, t) EXCEPT !.role = r, !.has_roles = h, !.roles = rs] :
        t \in {Null, 1, 2}, r \in RoleFields, h \in BOOLEAN, rs \in RolesLists }

InitFilter ==
    /\ \E u \in FilterUsers :
          /\ (~u.has_roles => u.roles = {})
          /\ users = {u}
    /\ perm_arg = NullPermissions /\ requests = NoRequests
    /\ resp = NoResp
    /\ documents = {} /\ locations = {} /\ audit_logs = {}
    /\ videos = {} /\ video_progress = {} /\ video_evaluations = {}
    /\ EmptyParts /\ EmptyResets /\ EmptyJourney
    /\ EmptyPlatform
    /\ last_id = [c \in Collections |-> 0]

\* a handler builds its query: the user document as stored, or as
\* get_current_user normalised it
GetTenantFilter ==
    \E u \in users, normalized \in BOOLEAN :
        LET user == IF normalized THEN normalize_user_roles(u) ELSE u
        IN /\ resp' = [op |-> "get_tenant_filter", user |-> user,
                       ret |-> get_tenant_filter(user)]
           /\ UNCHANGED <<users, documents, locations, audit_logs, last_id,
                          perm_arg, requests, offPerm>>

NextFilter == GetTenantFilter

SpecFilter == InitFilter /\ [][NextFilter]_vars

\* the role set of a user document: its roles list when it has one, else
\* its legacy role, else user
RoleSet(u) ==
    IF u.has_roles THEN u.roles ELSE IF u.role # Absent THEN {u.role} ELSE {USER}

\* C12: get_tenant_filter returns the empty filter when the role set
\* contains superadmin (whatever the tenant_id), {tenant_id: T} when the
\* user is no superadmin and has tenant_id T, and fails with 403 when the
\* user is no superadmin and has no tenant_id.
C12_TenantFilter ==
    resp.op = "get_tenant_filter"
    => IF SUPERADMIN \in RoleSet(resp.user)
       THEN resp.ret.status = 200 /\ resp.ret.any
       ELSE IF resp.user.tenant_id # Null
       THEN /\ resp.ret.status = 200 /\ ~resp.ret.any
            /\ resp.ret.tenant_id = resp.user.tenant_id
       ELSE resp.ret.status = 403

\* C12 witness: a superadmin named in the roles list only, with a tenant,
\* got the empty filter.
C12_Witness ==
    /\ resp.op = "get_tenant_filter"
    /\ resp.user.roles = {SUPERADMIN} /\ resp.user.role # SUPERADMIN
    /\ resp.user.tenant_id = 1
    /\ resp.ret.status = 200 /\ resp.ret.any

\* C12, the failing side: a user without tenant got 403.
C12_WitnessNoTenant ==
    /\ resp.op = "get_tenant_filter"
    /\ SUPERADMIN \notin RoleSet(resp.user) /\ resp.user.tenant_id = Null
    /\ resp.ret.status = 403

(***************************************************************************)
(* SpecLogin: routes/auth.py login, with and without tenant_slug.           *)
(***************************************************************************)
\* app/models/tenant.py TenantStatus
SUSPENDED == "suspended"
TenantStatus == {ACTIVE, INACTIVE, SUSPENDED}

\* a tenant document; the slug of tenant t is t
Tenant(id, status) == [id |-> id, slug |-> id, status |-> status]

\* The users the startup bootstrap (1), create_tenant (2, owner of tenant 1),
\* create_user (3, tenant 1: `roles` only) and register (4, tenant 2, who
\* chose the e-mail address of user 2) leave behind; the password of each
\* is 1.
LoginUsers(status4) ==
    { [BlankUser(1, Null) EXCEPT !.role = SUPERADMIN,
                                 !.password = hash_password(1, 1)],
      [BlankUser(2, 1) EXCEPT !.role = ADMIN, !.is_tenant_owner = TRUE,
                              !.password = hash_password(1, 1)],
      [BlankUser(3, 1) EXCEPT !.has_roles = TRUE, !.roles = {USER},
                              !.password = hash_password(1, 1)],
      [BlankUser(4, 2) EXCEPT !.role = USER, !.has_roles = TRUE,
                              !.roles = {USER}, !.email = 2,
                              !.status = status4,
                              !.password = hash_password(1, 2)] }

InitLogin ==
    /\ \E status4 \in {ACTIVE, INACTIVE} : users = LoginUsers(status4)
    /\ \E s1 \in {ACTIVE, SUSPENDED} : tenants = {Tenant(1, s1), Tenant(2, ACTIVE)}
    /\ formative_stages = {}
    /\ stage_indicators = {} /\ acompanhamentos = {} /\ EmptyRates
    /\ audit_logs = {}
    /\ last_id = [c \in Collections |-> 0]
    /\ documents = {} /\ locations = {}
    /\ videos = {} /\ video_progress = {} /\ video_evaluations = {}
    /\ EmptyParts /\ EmptyResets /\ EmptyJourney
    /\ resp = NoResp
    /\ perm_arg = NullPermissions /\ requests = NoRequests

\* the response of login: the arguments, the user document the lookup found
\* (Null when none) and the access token issued (NoToken when none)
LoginReply(args, status, detail, user_id, access_token) ==
    [op |-> "login", args |-> args, status |-> status, detail |-> detail,
     user_id |-> user_id, access_token |-> access_token,
     refresh_token |-> IF status = 200 THEN create_refresh_token(user_id)
                       ELSE NoToken]

\* routes/auth.py login.  tenant_slug 3 names no tenant, e-mail address 5
\* nobody.  find_one returns one of the documents that match; the second
\* lookup (e-mail and role superadmin) runs when the first found nothing and
\* so finds nothing either.
login ==
    \E email \in {1, 2, 3, 5}, password \in {1, 2}, tenant_slug \in {Null, 1, 2, 3} :
        LET args == [email |-> email, password |-> password,
                     tenant_slug |-> tenant_slug]
            by_slug == { t \in tenants : t.slug = tenant_slug }
            tenant == CHOOSE t \in by_slug : TRUE
            found == { u \in users :
                         /\ u.email = email
                         /\ tenant_slug # Null => u.tenant_id = tenant.id }
            Fail(status, detail, user_id) ==
                /\ resp' = LoginReply(args, status, detail, user_id, NoToken)
                /\ UNCHANGED audit_logs
        IN /\ IF tenant_slug # Null /\ by_slug = {}
              THEN Fail(404, "Organization not found", Null)
              ELSE IF tenant_slug # Null /\ tenant.status # ACTIVE
              THEN Fail(403, "Organization is inactive", Null)
              ELSE IF found = {} THEN Fail(401, "Invalid credentials", Null)
              ELSE \E user \in found :
                     LET own == { t \in tenants : t.id = user.tenant_id }
                         entry == AuditEntry(user.id, "login", "user", user.id)
                     IN IF ~verify_password(password, user.password)
                        THEN Fail(401, "Invalid credentials", user.id)
                        ELSE IF user.status = INACTIVE
                        THEN Fail(403, "Account is inactive", user.id)
                        ELSE IF /\ user.tenant_id # Null
                                /\ \E t \in own : t.status # ACTIVE
                        THEN Fail(403, "Your organization is inactive. Please contact support.", user.id)
                        ELSE IF user.role = Absent
                        THEN Fail(500, "KeyError", user.id)
                        ELSE /\ resp' = LoginReply(args, 200, "", user.id,
                                           create_access_token(user.id,
                                               OneRole(user.role), user.tenant_id))
                             /\ audit_logs' = log_action(user.id, "login", "user", user.id)
           /\ UNCHANGED <<users, tenants, last_id, contentVars, videoVars, partVars,
                          resetVars, user_journey, now, perm_arg, requests,
                          formative_stages, stage_indicators,
                          acompanhamentos, rateVars>>

NextLogin == login

SpecLogin == InitLogin /\ [][NextLogin]_vars

LoggedIn == resp.op = "login" /\ resp.status = 200
NoSlug == resp.op = "login" /\ resp.args.tenant_slug = Null
LoginUser == CHOOSE u \in users : u.id = resp.user_id

C13_WitnessSuperadmin ==
    /\ NoSlug /\ LoggedIn /\ LoginUser.role = SUPERADMIN

(***************************************************************************)
(* SpecToken: the three operations that take a token, each handed tokens of *)
(* every type.                                                              *)
(***************************************************************************)
\* the token is not looked at beyond its signature and expiry
get_current_user_checks_any_type(token) ==
    LET payload == decode_token(token)
    IN IF payload.status # 200 THEN payload
       ELSE IF FindUser(token.user_id) = {}
       THEN [status |-> 401, detail |-> "User not found"]
       ELSE [status |-> 200, detail |-> ""]

\* utils/security.py get_current_user, from the bearer token to the lookup
get_current_user_checks(token) ==
    LET payload == decode_token(token)
    IN IF payload.status # 200 THEN payload
       ELSE IF token.type # "access"
       THEN [status |-> 401, detail |-> "Invalid token type"]
       ELSE IF FindUser(token.user_id) = {}
       THEN [status |-> 401, detail |-> "User not found"]
       ELSE [status |-> 200, detail |-> ""]

\* The tokens a client may send for user 1 or 2: those the three creators
\* made at instant 0, and the same strings with a signature of another key.
TokenInputs ==
    LET signed == UNION { { [user_id |-> u, roles |-> {USER}, tenant_id |-> 1,
                             exp |-> AccessExpireSeconds, type |-> "access",
                             signed |-> TRUE],
                            [user_id |-> u, exp |-> RefreshExpireSeconds,
                             type |-> "refresh", signed |-> TRUE],
                            [user_id |-> u, exp |-> ResetExpireSeconds,
                             type |-> "reset", signed |-> TRUE] } : u \in {1, 2} }
    IN signed \cup { [t EXCEPT !.signed = FALSE] : t \in signed }

\* the response of get_me and refresh_token: the token of the call, the
\* user returned and the tokens issued
TokenReply(op, token, status, detail, user_id, access_token, refresh_token) ==
    [op |-> op, token |-> token, status |-> status, detail |-> detail,
     user_id |-> user_id, access_token |-> access_token,
     refresh_token |-> refresh_token]

offToken == <<users, audit_logs, last_id, password_resets, spent, now,
              contentVars, videoVars, partVars, user_journey, perm_arg, requests,
              platformVars>>

\* routes/auth.py get_me: the user get_current_user returns (the tenant
\* summary is added when db.tenants has the user's tenant)
get_me ==
    \E token \in TokenInputs :
        LET checks == get_current_user_checks(token)
        IN /\ resp' = TokenReply("get_me", token, checks.status, checks.detail,
                                 IF checks.status = 200 THEN token.user_id ELSE Null,
                                 NoToken, NoToken)
           /\ UNCHANGED offToken

\* routes/auth.py refresh_token
refresh_token ==
    \E token \in TokenInputs :
        LET payload == decode_token(token)
            found == FindUser(token.user_id)
            user == CHOOSE u \in found : TRUE
            Fail(status, detail) ==
                resp' = TokenReply("refresh_token", token, status, detail, Null,
                                   NoToken, NoToken)
        IN /\ IF payload.status # 200 THEN Fail(payload.status, payload.detail)
              ELSE IF token.type # "refresh" THEN Fail(401, "Invalid token type")
              ELSE IF found = {} THEN Fail(401, "User not found")
              ELSE IF user.role = Absent THEN Fail(500, "KeyError")
              ELSE resp' = TokenReply("refresh_token", token, 200, "", user.id,
                               create_access_token(user.id, OneRole(user.role),
                                                   user.tenant_id),
                               create_refresh_token(user.id))
           /\ UNCHANGED offToken

InitToken ==
    /\ users = ResetUsers
    /\ password_resets = {} /\ spent = {}
    /\ now = 0 /\ user_journey = {}
    /\ audit_logs = {}
    /\ last_id = [c \in Collections |-> 0]
    /\ documents = {} /\ locations = {}
    /\ videos = {} /\ video_progress = {} /\ video_evaluations = {}
    /\ EmptyParts /\ EmptyPlatform
    /\ resp = NoResp
    /\ perm_arg = NullPermissions /\ requests = NoRequests

NextToken ==
    \/ Tick
    \/ request_password_reset
    \/ confirm_password_reset
    \/ get_me
    \/ refresh_token

SpecToken == InitToken /\ [][NextToken]_vars

\* a token the signature and expiry checks let through
TokenValid(token) == token.signed /\ token.exp > now

\* C14: a token is accepted only by the operation of its own type:
\* get_current_user rejects with 401 every token whose type is not 'access',
\* refresh_token rejects with 401 every token whose type is not 'refresh',
\* and confirm_password_reset rejects with 400 every token whose type is
\* not 'reset'.
C14_TokenTypeEnforced ==
    /\ (resp.op = "get_me" /\ resp.token.type # "access")
          => resp.status = 401 /\ resp.user_id = Null
    /\ (resp.op = "refresh_token" /\ resp.token.type # "refresh")
          => resp.status = 401 /\ resp.access_token = NoToken
    /\ (resp.op = "confirm_password_reset" /\ resp.token.type # "reset")
          => resp.status = 400

\* C14 witness: a refresh token that is signed, not expired and names an
\* existing user was refused by get_current_user for its type.
C14_Witness ==
    /\ resp.op = "get_me" /\ resp.token.type = "refresh"
    /\ TokenValid(resp.token) /\ FindUser(resp.token.user_id) # {}
    /\ resp.status = 401 /\ resp.detail = "Invalid token type"

\* C14: a valid access token was refused by refresh_token.
C14_WitnessRefresh ==
    /\ resp.op = "refresh_token" /\ resp.token.type = "access"
    /\ TokenValid(resp.token)
    /\ resp.status = 401 /\ resp.detail = "Invalid token type"

\* C14: a valid refresh token was refused by confirm_password_reset.
C14_WitnessConfirm ==
    /\ resp.op = "confirm_password_reset" /\ resp.token.type = "refresh"
    /\ TokenValid(resp.token)
    /\ resp.status = 400 /\ resp.detail = "Invalid token type"

\* C14: each operation accepted a token of its own type.
C14_WitnessAccepted ==
    /\ resp.op = "get_me" /\ resp.token.type = "access" /\ resp.status = 200

(***************************************************************************)
(* SpecAccess: create_access_token and the payload decode_token returns.    *)
(***************************************************************************)
\* the arguments of a call: tenant_id is Null when it is omitted
AccessArgs ==
    [user_id : {1, 2, 3},
     roles : {OneRole(r) : r \in UserRole} \cup {RoleList(R) : R \in RolesLists},
     tenant_id : {Null, 1, 2}]

InitAccess ==
    /\ \E args \in AccessArgs :
          resp = [op |-> "none", args |-> args, status |-> 0, payload |-> NoToken]
    /\ users = {}
    /\ perm_arg = NullPermissions /\ requests = NoRequests
    /\ documents = {} /\ locations = {} /\ audit_logs = {}
    /\ videos = {} /\ video_progress = {} /\ video_evaluations = {}
    /\ EmptyParts /\ EmptyResets /\ EmptyJourney
    /\ EmptyPlatform
    /\ last_id = [c \in Collections |-> 0]

\* token = create_access_token(...); payload = decode_token(token)
CreateAccessToken ==
    /\ resp.op = "none"
    /\ LET token == create_access_token(resp.args.user_id, resp.args.roles,
                                        resp.args.tenant_id)
       IN resp' = [op |-> "create_access_token", args |-> resp.args,
                   status |-> decode_token(token).status, payload |-> token]
    /\ UNCHANGED <<users, documents, locations, audit_logs, last_id,
                   perm_arg, requests, offPerm>>

NextAccess == CreateAccessToken

SpecAccess == InitAccess /\ [][NextAccess]_vars

AccessTokenMade == resp.op = "create_access_token"

\* C15: decoding the token produced by create_access_token(user_id, role,
\* tenant_id) yields a payload with user_id equal to user_id, role equal to
\* the given role, tenant_id equal to tenant_id (None when omitted) and type
\* equal to 'access'.
C15_AccessTokenPayload ==
    AccessTokenMade
    => /\ resp.status = 200
       /\ resp.payload.user_id = resp.args.user_id
       /\ "role" \in DOMAIN resp.payload
       /\ resp.payload.role = resp.args.roles.value
       /\ resp.payload.tenant_id = resp.args.tenant_id
       /\ resp.payload.type = "access"

\* what the payload does carry: a key `roles` holding a list, the one-element
\* list of the role when a single role was given
C15_PayloadCarriesRolesList ==
    AccessTokenMade
    => /\ resp.status = 200
       /\ resp.payload.user_id = resp.args.user_id
       /\ DOMAIN resp.payload =
              {"user_id", "roles", "tenant_id", "exp", "type", "signed"}
       /\ resp.payload.roles = IF resp.args.roles.is_list
                               THEN resp.args.roles.value
                               ELSE {resp.args.roles.value}
       /\ resp.payload.tenant_id = resp.args.tenant_id
       /\ resp.payload.type = "access"

(***************************************************************************)
(* request_password_reset and e-mail enumeration (SpecReset).               *)
(***************************************************************************)
ResetRequested == resp.op = "request_password_reset"

\* C18: request_password_reset returns the same status and the same
\* response body whether or not a user with the given email exists.
C18_SameResponse ==
    [][ resp'.op = "request_password_reset"
        => resp' = [op |-> "request_password_reset", token |-> NoToken,
                    status |-> 200,
                    detail |-> "If the email exists, a reset link will be sent"]
      ]_vars

\* C18 witness: a request for an address nobody has was answered; no reset
\* record was ever written.
C18_Witness ==
    /\ ResetRequested /\ password_resets = {} /\ audit_logs = {}
    /\ resp.status = 200

\* C18, the other side: a request for the address of user 2 was answered
\* and its reset record stored.
C18_WitnessFound ==
    /\ ResetRequested /\ resp.status = 200
    /\ \E r \in password_resets :
          r.user_id = 2 /\ ~r.used /\ r.token.exp = now + ResetExpireSeconds

(***************************************************************************)
(* SpecRate: main.py rate_limit_middleware.                                 *)
(***************************************************************************)
RATE_LIMIT_MAX_REQUESTS == 100
RATE_LIMIT_WINDOW_SECONDS == 60
AUTH_RATE_LIMIT_MAX_REQUESTS == 10
AUTH_RATE_LIMIT_WINDOW_SECONDS == 60

ClientIps == {1, 2}
AuthPaths == {"/api/auth/login", "/api/auth/register"}
Paths == AuthPaths \cup {"/api/auth/refresh", "/api/users"}

\* the instants requests arrive at: the first, one half a window later, one
\* a whole window later and one a window and a half later
RateInstants == {0, 30, RATE_LIMIT_WINDOW_SECONDS, RATE_LIMIT_WINDOW_SECONDS + 30}

\* n copies of t
Repeat(t, n) == [i \in 1..n |-> t]

\* rate_limit_store[key] of a defaultdict(list)
store_get(store, key) == IF key \in DOMAIN store THEN store[key] ELSE <<>>
store_set(store, key, value) ==
    [k \in DOMAIN store \cup {key} |-> IF k = key THEN value ELSE store[k]]

\* [t for t in rate_limit_store[key] if now - t < window]
within_window(timestamps, t_now, window) ==
    LET keep(t) == t_now - t < window
    IN SelectSeq(timestamps, keep)

\* the budget counts as used up only beyond the maximum
over_limit_beyond_max(timestamps, max_requests) == Len(timestamps) > max_requests

\* len(rate_limit_store[key]) >= max_requests
over_limit(timestamps, max_requests) == Len(timestamps) >= max_requests

RECURSIVE TotalLen(_)
TotalLen(store) ==
    IF DOMAIN store = {} THEN 0
    ELSE LET k == CHOOSE x \in DOMAIN store : TRUE
         IN Len(store[k]) + TotalLen([x \in DOMAIN store \ {k} |-> store[x]])

\* The process has served, at instant 0, one request fewer than the budget
\* of each class for IP 1; IP 2 has not been seen.
StartStore ==
    [k \in {<<"auth", 1>>, <<"general", 1>>} |->
        IF k[1] = "auth" THEN Repeat(0, AUTH_RATE_LIMIT_MAX_REQUESTS - 1)
        ELSE Repeat(0, RATE_LIMIT_MAX_REQUESTS - 1)]

InitRate ==
    /\ rate_limit_store = StartStore
    /\ forwarded = StartStore
    /\ now = 0 /\ user_journey = {}
    /\ tenants = {} /\ formative_stages = {}
    /\ stage_indicators = {} /\ acompanhamentos = {}
    /\ users = {} /\ audit_logs = {}
    /\ last_id = [c \in Collections |-> 0]
    /\ documents = {} /\ locations = {}
    /\ videos = {} /\ video_progress = {} /\ video_evaluations = {}
    /\ EmptyParts /\ EmptyResets
    /\ resp = NoResp
    /\ perm_arg = NullPermissions /\ requests = NoRequests

offRate == <<users, audit_logs, last_id, contentVars, videoVars, partVars,
             resetVars, user_journey, perm_arg, requests,
             tenants, formative_stages, stage_indicators, acompanhamentos>>

\* time.time() moves on
Elapse ==
    \E t \in RateInstants :
        /\ t > now
        /\ now' = t
        /\ UNCHANGED <<rate_limit_store, forwarded, resp, offRate>>

\* main.py rate_limit_middleware: one request of one client
rate_limit_middleware ==
    \E client_ip \in ClientIps, path \in Paths :
        LET is_auth == path \in AuthPaths
            max_requests == IF is_auth THEN AUTH_RATE_LIMIT_MAX_REQUESTS
                            ELSE RATE_LIMIT_MAX_REQUESTS
            window == IF is_auth THEN AUTH_RATE_LIMIT_WINDOW_SECONDS
                      ELSE RATE_LIMIT_WINDOW_SECONDS
            key == <<IF is_auth THEN "auth" ELSE "general", client_ip>>
            kept == within_window(store_get(rate_limit_store, key), now, window)
        IN /\ IF over_limit(kept, max_requests)
              THEN /\ rate_limit_store' = store_set(rate_limit_store, key, kept)
                   /\ resp' = [op |-> "rate_limit_middleware", key |-> key,
                               status |-> 429, retry_after |-> window,
                               call_next |-> FALSE]
                   /\ UNCHANGED forwarded
              ELSE /\ TotalLen(forwarded) < TotalLen(StartStore) + MaxForwarded
                   /\ rate_limit_store' =
                          store_set(rate_limit_store, key, Append(kept, now))
                   /\ forwarded' = store_set(forwarded, key,
                                       Append(store_get(forwarded, key), now))
                   /\ resp' = [op |-> "rate_limit_middleware", key |-> key,
                               status |-> 200, retry_after |-> Null,
                               call_next |-> TRUE]
           /\ UNCHANGED <<now, offRate>>

NextRate == Elapse \/ rate_limit_middleware

SpecRate == InitRate /\ [][NextRate]_vars

\* the budget of a key
Budget(key) ==
    IF key[1] = "auth" THEN AUTH_RATE_LIMIT_MAX_REQUESTS
    ELSE RATE_LIMIT_MAX_REQUESTS

\* the requests of a key passed on at an instant t with lo <= t < hi
AdmittedIn(history, key, lo, hi) ==
    LET s == store_get(history, key)
    IN Cardinality({ i \in 1..Len(s) : lo <= s[i] /\ s[i] < hi })
Admitted(key, lo, hi) == AdmittedIn(forwarded, key, lo, hi)

\* within every window of 60 seconds no key has more requests passed on
\* than its budget
WindowBudgetKept ==
    \A key \in DOMAIN forwarded, a \in RateInstants :
        Admitted(key, a, a + RATE_LIMIT_WINDOW_SECONDS) <= Budget(key)

\* a request is refused exactly when the 60 seconds up to its arrival hold a
\* full budget of requests of its own key, whatever the other keys hold
RefusedIffExhausted ==
    (resp'.op = "rate_limit_middleware" /\ now' = now)
    => LET key == resp'.key
       IN IF Admitted(key, now - RATE_LIMIT_WINDOW_SECONDS + 1, now + 1)
               >= Budget(key)
          THEN /\ resp'.status = 429
               /\ resp'.retry_after = RATE_LIMIT_WINDOW_SECONDS
               /\ ~resp'.call_next
               /\ forwarded' = forwarded
          ELSE /\ resp'.call_next
               /\ AdmittedIn(forwarded', key, now, now + 1)
                      = Admitted(key, now, now + 1) + 1

\* C16: for each client IP and endpoint class the rate limiter admits at
\* most 100 general and at most 10 login/register requests within any
\* 60-second sliding window; a request arriving when the budget of its key
\* is exhausted is answered 429 with a Retry-After header and is not
\* forwarded to the handler; the two classes and different IPs consume
\* separate budgets.
C16_RateLimit == []WindowBudgetKept /\ [][RefusedIffExhausted]_vars

\* C16 witness: the login budget of IP 1 is used up and a login request of
\* IP 1 was answered 429.
C16_Witness ==
    /\ resp.op = "rate_limit_middleware" /\ resp.key = <<"auth", 1>>
    /\ resp.status = 429 /\ resp.retry_after = 60 /\ ~resp.call_next
    /\ Admitted(<<"auth", 1>>, now - RATE_LIMIT_WINDOW_SECONDS + 1, now + 1)
          = AUTH_RATE_LIMIT_MAX_REQUESTS

\* C16: with the login budget of IP 1 used up, a general request of IP 1
\* and a login request of IP 2 were passed on.
C16_WitnessSeparate ==
    /\ Admitted(<<"auth", 1>>, now - RATE_LIMIT_WINDOW_SECONDS + 1, now + 1)
          = AUTH_RATE_LIMIT_MAX_REQUESTS
    /\ Admitted(<<"general", 1>>, now, now + 1) = RATE_LIMIT_MAX_REQUESTS
    /\ Admitted(<<"auth", 2>>, now, now + 1) = 1
    /\ resp.op = "rate_limit_middleware" /\ resp.call_next

\* C16: a window later the requests of instant 0 count no more.
C16_WitnessSliding ==
    /\ now = RATE_LIMIT_WINDOW_SECONDS
    /\ resp.op = "rate_limit_middleware" /\ resp.key = <<"general", 1>>
    /\ resp.call_next
    /\ Admitted(<<"general", 1>>, 0, 1) = RATE_LIMIT_MAX_REQUESTS

(***************************************************************************)
(* SpecFollow: routes/acompanhamentos.py, the follow-up records of a        *)
(* formando and who may change them.                                        *)
(***************************************************************************)
\* a user document that has the key formador_id (UserBase.formador_id)
WithFormador(u, formador_id) ==
    [k \in DOMAIN u \cup {"formador_id"} |->
        IF k = "formador_id" THEN formador_id ELSE u[k]]

\* user.get("formador_id")
formador_of(u) == IF "formador_id" \in DOMAIN u THEN u.formador_id ELSE Null

\* The users of tenant 1: its owner (1, written by create_tenant with the
\* legacy role admin) and four users written by create_user with a `roles`
\* list only: the formadores 2 and 3, the admin 4, and the formando 5 whose
\* formador is 2.
FollowUsers ==
    { [BlankUser(1, 1) EXCEPT !.role = ADMIN, !.is_tenant_owner = TRUE],
      WithFormador([BlankUser(2, 1) EXCEPT !.has_roles = TRUE, !.roles = {FORMADOR}], Null),
      WithFormador([BlankUser(3, 1) EXCEPT !.has_roles = TRUE, !.roles = {FORMADOR}], Null),
      WithFormador([BlankUser(4, 1) EXCEPT !.has_roles = TRUE, !.roles = {ADMIN}], Null),
      WithFormador([BlankUser(5, 1) EXCEPT !.has_roles = TRUE, !.roles = {USER}], 2) }

InitFollow ==
    /\ users = FollowUsers
    /\ acompanhamentos = {}
    /\ tenants = {Tenant(1, ACTIVE)} /\ formative_stages = {}
    /\ stage_indicators = {} /\ EmptyRates
    /\ audit_logs = {}
    /\ last_id = [c \in Collections |-> 0]
    /\ documents = {} /\ locations = {}
    /\ videos = {} /\ video_progress = {} /\ video_evaluations = {}
    /\ EmptyParts /\ EmptyResets /\ EmptyJourney
    /\ resp = NoResp
    /\ perm_arg = NullPermissions /\ requests = NoRequests

offFollow == <<users, last_id, contentVars, videoVars, partVars, resetVars,
               user_journey, now, perm_arg, requests, tenants, formative_stages,
               stage_indicators, rateVars>>

\* the response of a handler of routes/acompanhamentos.py
FollowReply(op, caller, acomp_id, status, detail) ==
    [op |-> op, caller |-> caller, acomp_id |-> acomp_id, status |-> status,
     detail |-> detail]

\* the ownership test of update_acompanhamento and delete_acompanhamento:
\* current_user.get("role") != ADMIN and existing["formador_id"] !=
\* current_user["id"] is refused
may_change(current_user, existing) ==
    current_user.role = ADMIN \/ existing.formador_id = current_user.id

\* routes/acompanhamentos.py create_acompanhamento
create_acompanhamento ==
    \E cu \in users, user_id \in {5, 6} :
        LET me == UserView(cu)
            target == { u \in users : u.id = user_id }
            target_user == CHOOSE u \in target : TRUE
            id == new_id("acompanhamentos")
            acomp == [id |-> id, user_id |-> user_id, formador_id |-> me.id,
                      content |-> 1,
                      formative_stage_id |-> target_user.formative_stage_id,
                      updated_at |-> now]
            entry == AuditEntry(me.id, "create", "acompanhamento", id)
            Fail(status, detail) ==
                /\ resp' = FollowReply("create_acompanhamento", me.id, Null,
                                       status, detail)
                /\ UNCHANGED <<acompanhamentos, audit_logs, last_id>>
        IN /\ IF ~is_admin_or_formador(me)
              THEN Fail(403, "Only formadores can manage follow-ups")
              ELSE IF target = {} THEN Fail(404, "User not found")
              ELSE IF me.role # ADMIN /\ formador_of(target_user) # me.id
              THEN Fail(403, "You can only create follow-ups for your assigned users")
              ELSE /\ last_id["acompanhamentos"] < MaxFollowUps
                   /\ LogRoom(entry)
                   /\ acompanhamentos' = acompanhamentos \cup {acomp}
                   /\ last_id' = [last_id EXCEPT !["acompanhamentos"] = id]
                   /\ audit_logs' = log_action(me.id, "create", "acompanhamento", id)
                   /\ resp' = FollowReply("create_acompanhamento", me.id, id, 200, "")
           /\ UNCHANGED <<users, contentVars, videoVars, partVars, resetVars,
                          user_journey, now, perm_arg, requests, tenants,
                          formative_stages, stage_indicators, rateVars>>

\* routes/acompanhamentos.py update_acompanhamento (content: None or 2)
update_acompanhamento ==
    \E cu \in users, acomp_id \in 1..MaxFollowUps, content \in {Null, 2} :
        LET me == UserView(cu)
            found == { a \in acompanhamentos : a.id = acomp_id }
            existing == CHOOSE a \in found : TRUE
            updated == [existing EXCEPT
                          !.content = IF content # Null THEN content ELSE @,
                          !.updated_at = now]
            entry == AuditEntry(me.id, "update", "acompanhamento", acomp_id)
            Fail(status, detail) ==
                /\ resp' = FollowReply("update_acompanhamento", me.id, acomp_id,
                                       status, detail)
                /\ UNCHANGED <<acompanhamentos, audit_logs>>
        IN /\ IF ~is_admin_or_formador(me)
              THEN Fail(403, "Only formadores can manage follow-ups")
              ELSE IF found = {} THEN Fail(404, "Acompanhamento not found")
              ELSE IF ~may_change(me, existing)
              THEN Fail(403, "You can only edit your own follow-ups")
              ELSE /\ LogRoom(entry)
                   /\ acompanhamentos' = (acompanhamentos \ {existing}) \cup {updated}
                   /\ audit_logs' = log_action(me.id, "update", "acompanhamento", acomp_id)
                   /\ resp' = FollowReply("update_acompanhamento", me.id, acomp_id,
                                          200, "")
           /\ UNCHANGED offFollow

\* routes/acompanhamentos.py delete_acompanhamento
delete_acompanhamento ==
    \E cu \in users, acomp_id \in 1..MaxFollowUps :
        LET me == UserView(cu)
            found == { a \in acompanhamentos : a.id = acomp_id }
            existing == CHOOSE a \in found : TRUE
            entry == AuditEntry(me.id, "delete", "acompanhamento", acomp_id)
            Fail(status, detail) ==
                /\ resp' = FollowReply("delete_acompanhamento", me.id, acomp_id,
                                       status, detail)
                /\ UNCHANGED <<acompanhamentos, audit_logs>>
        IN /\ IF ~is_admin_or_formador(me)
              THEN Fail(403, "Only formadores can manage follow-ups")
              ELSE IF found = {} THEN Fail(404, "Acompanhamento not found")
              ELSE IF ~may_change(me, existing)
              THEN Fail(403, "You can only delete your own follow-ups")
              ELSE /\ LogRoom(entry)
                   /\ acompanhamentos' = acompanhamentos \ {existing}
                   /\ audit_logs' = log_action(me.id, "delete", "acompanhamento", acomp_id)
                   /\ resp' = FollowReply("delete_acompanhamento", me.id, acomp_id,
                                          200, "Acompanhamento deleted successfully")
           /\ UNCHANGED offFollow

NextFollow ==
    \/ create_acompanhamento
    \/ update_acompanhamento
    \/ delete_acompanhamento

SpecFollow == InitFollow /\ [][NextFollow]_vars

\* the step answered an update or a delete of a stored record
ChangeAsked ==
    /\ resp'.op \in {"update_acompanhamento", "delete_acompanhamento"}
    /\ \E a \in acompanhamentos : a.id = resp'.acomp_id
AskedRecord == CHOOSE a \in acompanhamentos : a.id = resp'.acomp_id
AskingUser == CHOOSE u \in users : u.id = resp'.caller
HoldsAdmin(u) == ADMIN \in get_user_roles(u)

\* C17: update_acompanhamento and delete_acompanhamento succeed only when
\* the caller is the formador who created the record or holds the admin
\* role: every caller holding the admin role is allowed, and every other
\* formador gets 403 with the record left unchanged.
C17_OwnerOrAdminOnly ==
    [][ ChangeAsked =>
          /\ resp'.status = 200
                => (AskedRecord.formador_id = resp'.caller \/ HoldsAdmin(AskingUser))
          /\ HoldsAdmin(AskingUser) => resp'.status = 200
          /\ (~HoldsAdmin(AskingUser) /\ AskedRecord.formador_id # resp'.caller)
                => resp'.status = 403 /\ acompanhamentos' = acompanhamentos
      ]_vars

\* what holds of the code: the admin the handlers let through is the one
\* whose legacy `role` field says admin
C17_LegacyAdminOrOwnerOnly ==
    [][ ChangeAsked =>
          /\ resp'.status = 200
                <=> (AskedRecord.formador_id = resp'.caller
                        \/ AskingUser.role = ADMIN)
          /\ resp'.status # 200
                => resp'.status = 403 /\ acompanhamentos' = acompanhamentos
      ]_vars

(***************************************************************************)
(* SpecCascade: routes/tenants.py delete_tenant among the operations that   *)
(* fill the collections of a tenant and write the audit log.                *)
(***************************************************************************)
\* log_action with its tenant_id argument given
AuditEntryOf(user_id, action, resource_type, resource_id, tenant_id) ==
    [AuditEntry(user_id, action, resource_type, resource_id)
        EXCEPT !.tenant_id = tenant_id]

\* a document matches {"tenant_id": T}; one without the key never does
has_tenant(d, tenant_id) == "tenant_id" \in DOMAIN d /\ d.tenant_id = tenant_id

\* delete_many({"tenant_id": tenant_id}) on a collection
delete_many(collection, tenant_id) ==
    { d \in collection : ~has_tenant(d, tenant_id) }

\* every audit entry goes
delete_tenant_logs_all(logs, tenant_id) == {}

\* db.audit_logs.delete_many({"tenant_id": tenant_id})
delete_tenant_logs(logs, tenant_id) == delete_many(logs, tenant_id)

\* require_superadmin
is_superadmin(current_user) == SUPERADMIN \in get_user_roles(current_user)

\* The superadmin (1), the owner (2) and a member (3) of tenant 1 and the
\* owner (4) of tenant 2.
CascadeUsers ==
    { [BlankUser(1, Null) EXCEPT !.role = SUPERADMIN],
      [BlankUser(2, 1) EXCEPT !.role = ADMIN, !.is_tenant_owner = TRUE],
      [BlankUser(3, 1) EXCEPT !.has_roles = TRUE, !.roles = {USER}],
      [BlankUser(4, 2) EXCEPT !.role = ADMIN, !.is_tenant_owner = TRUE] }

\* the formative stage create_formative_stage stored (no tenant_id is
\* written) and the cycle the superadmin created for it
FirstStage == [id |-> 1]
SharedCycle == [FirstCycle EXCEPT !.tenant_id = Null]

InitCascade ==
    /\ users = CascadeUsers
    /\ tenants = {Tenant(1, ACTIVE), Tenant(2, ACTIVE)}
    /\ formative_stages = {FirstStage}
    /\ stage_cycles = {SharedCycle}
    /\ stage_participations = {}
    /\ stage_indicators = {} /\ acompanhamentos = {} /\ EmptyRates
    /\ audit_logs = {AuditEntry(1, "create", "stage_cycle", 1)}
    /\ last_id = [c \in Collections |-> 0]
    /\ documents = {} /\ locations = {}
    /\ videos = {} /\ video_progress = {} /\ video_evaluations = {}
    /\ EmptyResets /\ EmptyJourney
    /\ resp = NoResp
    /\ perm_arg = NullPermissions /\ requests = NoRequests

\* the response of create_stage_indicator and delete_tenant
CascadeReply(op, caller, tenant_id, status, detail) ==
    [op |-> op, caller |-> caller, tenant_id |-> tenant_id, status |-> status,
     detail |-> detail]

\* routes/psychological_assessments.py create_stage_indicator: the stage is
\* looked up by id alone; the indicator and its audit entry carry the
\* caller's tenant_id
create_stage_indicator ==
    \E cu \in users, formative_stage_id \in {1, 2} :
        LET me == UserView(cu)
            tenant_id == me.tenant_id
            stage == { s \in formative_stages : s.id = formative_stage_id }
            id == new_id("stage_indicators")
            indicator == [id |-> id, tenant_id |-> tenant_id,
                          formative_stage_id |-> formative_stage_id]
            entry == AuditEntryOf(me.id, "create", "stage_indicator", id,
                                  tenant_id)
            Fail(status, detail) ==
                /\ resp' = CascadeReply("create_stage_indicator", me.id,
                                        tenant_id, status, detail)
                /\ UNCHANGED <<stage_indicators, audit_logs, last_id>>
        IN /\ IF ~is_admin_or_formador(me)
              THEN Fail(403, "Admin or Formador access required")
              ELSE IF stage = {} THEN Fail(404, "Formative stage not found")
              ELSE /\ last_id["stage_indicators"] < MaxIndicators
                   /\ LogRoom(entry)
                   /\ stage_indicators' = stage_indicators \cup {indicator}
                   /\ last_id' = [last_id EXCEPT !["stage_indicators"] = id]
                   /\ audit_logs' = audit_logs \cup {entry}
                   /\ resp' = CascadeReply("create_stage_indicator", me.id,
                                           tenant_id, 200, "")
           /\ UNCHANGED <<users, contentVars, videoVars, partVars, resetVars,
                          user_journey, now, perm_arg, requests, tenants, formative_stages,
                          acompanhamentos, rateVars>>

\* routes/tenants.py delete_tenant: nine delete_many, the tenant itself,
\* then the audit entry of the deletion (db.functions is not modelled)
delete_tenant ==
    \E cu \in users, tenant_id \in {1, 2, 3} :
        LET me == UserView(cu)
            existing == { t \in tenants : t.id = tenant_id }
            entry == AuditEntry(me.id, "delete", "tenant", tenant_id)
            Fail(status, detail) ==
                /\ resp' = CascadeReply("delete_tenant", me.id, tenant_id,
                                        status, detail)
                /\ UNCHANGED <<users, locations, formative_stages, documents,
                               videos, video_progress, acompanhamentos,
                               audit_logs, tenants>>
        IN /\ IF ~is_superadmin(me) THEN Fail(403, "Superadmin access required")
              ELSE IF existing = {} THEN Fail(404, "Tenant not found")
              ELSE /\ LogRoom(entry)
                   /\ users' = delete_many(users, tenant_id)
                   /\ locations' = delete_many(locations, tenant_id)
                   /\ formative_stages' = delete_many(formative_stages, tenant_id)
                   /\ documents' = delete_many(documents, tenant_id)
                   /\ videos' = delete_many(videos, tenant_id)
                   /\ video_progress' = delete_many(video_progress, tenant_id)
                   /\ acompanhamentos' = delete_many(acompanhamentos, tenant_id)
                   /\ tenants' = tenants \ existing
                   /\ audit_logs' = delete_tenant_logs(audit_logs, tenant_id)
                                        \cup {entry}
                   /\ resp' = CascadeReply("delete_tenant", me.id, tenant_id, 200,
                                  "Tenant and all related data deleted successfully")
           /\ UNCHANGED <<last_id, video_evaluations, partVars, resetVars,
                          user_journey, now, perm_arg, requests, stage_indicators,
                          rateVars>>

NextCascade ==
    \/ create_stage_indicator
    \/ create_participation
    \/ delete_user
    \/ delete_tenant

SpecCascade == InitCascade /\ [][NextCascade]_vars

TenantDeleted == resp.op = "delete_tenant" /\ resp.status = 200

\* the collections of the model whose documents carry a tenant_id
TenantScoped ==
    users \cup formative_stages \cup stage_cycles \cup stage_participations
        \cup user_journey \cup videos \cup video_progress \cup video_evaluations
        \cup stage_indicators \cup acompanhamentos \cup documents
        \cup locations

\* C19: after a successful delete_tenant(T) no record with tenant_id = T
\* remains in any tenant-scoped collection (users, locations, functions,
\* formative stages, stage cycles, stage participations, user journey,
\* documents, videos and what hangs on them, certificates, acompanhamentos,
\* content subcategories, psychological assessments, stage indicators).
C19_NoTenantRecordLeft ==
    TenantDeleted => \A d \in TenantScoped : ~has_tenant(d, resp.tenant_id)

\* what delete_tenant does clear: the collections it names
C19_NamedCollectionsCleared ==
    TenantDeleted
    => \A d \in users \cup locations \cup formative_stages \cup documents
                  \cup videos \cup video_progress \cup acompanhamentos :
          ~has_tenant(d, resp.tenant_id)

\* C20 as stated: the audit log is append-only; across any sequence of API
\* operations no existing audit_logs entry is modified or removed.
C20_AuditAppendOnly == [][audit_logs \subseteq audit_logs']_vars

\* C20: no operation but delete_tenant modifies or removes an audit_logs
\* entry; a successful delete_tenant(T) removes the entries whose tenant_id
\* is T, and only those.
C20_AuditKeptButTenantEntries ==
    [][ \/ audit_logs \subseteq audit_logs'
        \/ /\ resp'.op = "delete_tenant" /\ resp'.status = 200
           /\ \A e \in audit_logs \ audit_logs' : e.tenant_id = resp'.tenant_id
           /\ \A e \in audit_logs' :
                 e.tenant_id = resp'.tenant_id => e \notin audit_logs
      ]_vars

\* C20 witness: tenant 1 was deleted; the stage indicator its owner created
\* is still stored, and the audit entry of its creation is gone while the
\* entry of the cycle's creation is kept.
C20_Witness ==
    /\ TenantDeleted /\ resp.tenant_id = 1
    /\ \E s \in stage_indicators :
          /\ s.tenant_id = 1
          /\ \A e \in audit_logs :
                ~(e.resource_type = "stage_indicator" /\ e.resource_id = s.id)
    /\ AuditEntry(1, "create", "stage_cycle", 1) \in audit_logs

(***************************************************************************)
(* SpecCycle: cycles and participations from an empty database: the         *)
(* superadmin and the admins of a tenant create cycles for the one          *)
(* formative stage, enroll users, decide and delete.                        *)
(***************************************************************************)
\* routes/stage_cycles.py create_cycle: the stage is looked up with the
\* caller's tenant_id when that is truthy (a stage document carries no
\* tenant_id, so such a lookup finds none)
create_cycle ==
    \E cu \in users, formative_stage_id \in {1, 2},
       max_participants \in {NoneInt, 1} :
        LET me == UserView(cu)
            tenant_id == me.tenant_id
            args == NoArgs
            stage == { s \in formative_stages :
                         /\ s.id = formative_stage_id
                         /\ tenant_id # Null => has_tenant(s, tenant_id) }
            id == new_id("stage_cycles")
            cycle == [id |-> id, tenant_id |-> tenant_id,
                      max_participants |-> max_participants]
            entry == AuditEntry(me.id, "create", "stage_cycle", id)
            Fail(status, detail) ==
                /\ resp' = Reply("create_cycle", me.id, args, status, detail, {})
                /\ UNCHANGED <<stage_cycles, audit_logs, last_id>>
        IN /\ IF ~is_admin(me) THEN Fail(403, "Admin access required")
              ELSE IF stage = {} THEN Fail(404, "Formative stage not found")
              ELSE /\ last_id["stage_cycles"] < MaxCycles
                   /\ LogRoom(entry)
                   /\ stage_cycles' = stage_cycles \cup {cycle}
                   /\ last_id' = [last_id EXCEPT !["stage_cycles"] = id]
                   /\ audit_logs' = log_action(me.id, "create", "stage_cycle", id)
                   /\ resp' = Reply("create_cycle", me.id, args, 200, "", {cycle})
           /\ UNCHANGED <<users, stage_participations, offPart>>

\* the cycle stays although participations refer to it
delete_cycle_blocked_never(participants) == FALSE

\* routes/stage_cycles.py delete_cycle, the test on the participations
\* counted for the cycle
delete_cycle_blocked(participants) == participants > 0

\* routes/stage_cycles.py delete_cycle
delete_cycle ==
    \E cu \in users, cycle_id \in 1..MaxCycles :
        LET me == UserView(cu)
            f == get_tenant_filter(me)
            args == [NoArgs EXCEPT !.cycle_id = cycle_id]
            found == { c \in stage_cycles : in_filter(f, c) /\ c.id = cycle_id }
            participants ==
                Cardinality({ p \in stage_participations : p.cycle_id = cycle_id })
            entry == AuditEntry(me.id, "delete", "stage_cycle", cycle_id)
            Fail(status, detail) ==
                /\ resp' = Reply("delete_cycle", me.id, args, status, detail, {})
                /\ UNCHANGED <<stage_cycles, audit_logs>>
        IN /\ IF ~is_admin(me) THEN Fail(403, "Admin access required")
              ELSE IF f.status # 200
              THEN Fail(f.status, "User not associated with any tenant")
              ELSE IF found = {} THEN Fail(404, "Cycle not found")
              ELSE IF delete_cycle_blocked(participants)
              THEN Fail(400, "Cannot delete cycle with participants. Remove participants first.")
              ELSE /\ LogRoom(entry)
                   /\ stage_cycles' = stage_cycles \ found
                   /\ audit_logs' = log_action(me.id, "delete", "stage_cycle", cycle_id)
                   /\ resp' = Reply("delete_cycle", me.id, args, 200,
                                    "Cycle deleted successfully", {})
           /\ UNCHANGED <<users, stage_participations, last_id, offPart>>

\* The superadmin (1) and the owner (2) of tenant 1.
CycleUsers ==
    { [BlankUser(1, Null) EXCEPT !.role = SUPERADMIN],
      [BlankUser(2, 1) EXCEPT !.role = ADMIN, !.is_tenant_owner = TRUE] }

InitCycle ==
    /\ users = CycleUsers
    /\ tenants = {Tenant(1, ACTIVE)}
    /\ formative_stages = {FirstStage}
    /\ stage_cycles = {}
    /\ stage_participations = {}
    /\ stage_indicators = {} /\ acompanhamentos = {} /\ EmptyRates
    /\ audit_logs = {}
    /\ last_id = [c \in Collections |-> 0]
    /\ documents = {} /\ locations = {}
    /\ videos = {} /\ video_progress = {} /\ video_evaluations = {}
    /\ EmptyResets
    /\ user_journey = {} /\ now \in {0, 1}
    /\ resp = NoResp
    /\ perm_arg = NullPermissions /\ requests = NoRequests

NextCycle ==
    \/ create_cycle
    \/ update_cycle
    \/ delete_cycle
    \/ create_participation
    \/ update_participation
    \/ approve_participation
    \/ reprove_participation
    \/ delete_participation

SpecCycle == InitCycle /\ [][NextCycle]_vars

\* the statuses the specification calls terminal
TerminalStatus == {APPROVED, REPROVED, "withdrawn", "transferred"}

\* the moves of a status the specification allows
AllowedMove(from, to) ==
    \/ from = to
    \/ from = ENROLLED /\ to = "in_progress"
    \/ from = "in_progress" /\ to \in {APPROVED, REPROVED}
    \/ from \notin TerminalStatus /\ to \in {"withdrawn", "transferred"}

\* C21: approved, reproved, withdrawn and transferred are terminal: no
\* approve, reprove or update call changes the status of a participation
\* that has one of them, and every change of a status is enrolled ->
\* in_progress, in_progress -> approved or reproved, or a non-terminal
\* status -> withdrawn or transferred.
C21_StatusMachine ==
    [][\A p \in stage_participations : \A q \in stage_participations' :
          q.id = p.id =>
              /\ p.status \in TerminalStatus => q.status = p.status
              /\ AllowedMove(p.status, q.status)]_vars

\* The first half of C21 alone: a terminal status is never changed.
C21_TerminalKept ==
    [][\A p \in stage_participations : \A q \in stage_participations' :
          (q.id = p.id /\ p.status \in TerminalStatus) => q.status = p.status]_vars

\* every participation refers to a stored cycle
CycleOfEachParticipation ==
    \A p \in stage_participations : \E c \in stage_cycles : c.id = p.cycle_id

\* request r is a delete_cycle by an admin whose tenant filter finds the
\* cycle, and the cycle has a participation
DeleteOfUsedCycle(r) ==
    /\ r.op = "delete_cycle"
    /\ is_admin(CallerOf(r))
    /\ get_tenant_filter(CallerOf(r)).status = 200
    /\ \E c \in stage_cycles :
          c.id = r.args.cycle_id /\ in_filter(get_tenant_filter(CallerOf(r)), c)
    /\ \E p \in stage_participations : p.cycle_id = r.args.cycle_id

\* C25: delete_cycle (by an admin who can see the cycle) on a cycle that has
\* at least one participation fails with 400 and leaves the cycle in place;
\* in every state of a sequential run of cycle and participation operations
\* each participation's cycle_id is the id of a stored cycle.
C25_UsedCycleKept ==
    /\ []CycleOfEachParticipation
    /\ [][DeleteOfUsedCycle(resp')
            => (resp'.status = 400 /\ UNCHANGED stage_cycles)]_vars

\* C25 witness: a delete_cycle on a cycle with a participation was refused.
C25_Witness ==
    /\ resp.op = "delete_cycle" /\ resp.status = 400
    /\ \E p \in stage_participations : p.cycle_id = resp.args.cycle_id
    /\ \E c \in stage_cycles : c.id = resp.args.cycle_id

\* C25, the other side: a cycle without participations was deleted after a
\* participation of it had been deleted.
C25_WitnessDeleted ==
    /\ resp.op = "delete_cycle" /\ resp.status = 200
    /\ stage_cycles = {}
    /\ last_id["stage_participations"] > 0

\* the three fields of a decision are set in participation p
DecisionStamped(p) ==
    /\ p.completion_date # NoneStr
    /\ p.approved_by_id # Null
    /\ p.approved_by_name # Null

\* the participation a successful request r wrote
WrittenBy(r) == CHOOSE p \in r.records : TRUE

\* request r is a successful update_participation whose body sets the status
\* to approved or reproved
UpdateDecided(r) ==
    /\ r.op = "update_participation" /\ r.status = 200
    /\ r.args.status \in {APPROVED, REPROVED}

\* C27: in every state an approved or reproved participation has
\* completion_date, approved_by_id and approved_by_name set, whichever of
\* approve, reprove and update gave it the status; an update into approved or
\* reproved keeps the completion_date of the request and stamps the current
\* time when the request has none, and names the caller as approver; a new
\* participation is enrolled with the three fields null.
C27_DecisionStamped ==
    /\ [](\A p \in stage_participations :
             p.status \in {APPROVED, REPROVED} => DecisionStamped(p))
    /\ [][UpdateDecided(resp')
            => /\ WrittenBy(resp') \in stage_participations'
               /\ WrittenBy(resp').status = resp'.args.status
               /\ WrittenBy(resp').completion_date =
                      IF resp'.args.completion_date = NoneStr
                      THEN isoformat(now)
                      ELSE resp'.args.completion_date
               /\ WrittenBy(resp').approved_by_id = resp'.caller
               /\ WrittenBy(resp').approved_by_name
                      = full_name(CallerOf(resp'))]_vars
    /\ [][(resp'.op \in {"approve_participation", "reprove_participation"}
              /\ resp'.status = 200)
            => /\ WrittenBy(resp') \in stage_participations'
               /\ WrittenBy(resp').status =
                      IF resp'.op = "approve_participation" THEN APPROVED
                      ELSE REPROVED
               /\ WrittenBy(resp').completion_date = isoformat(now)
               /\ WrittenBy(resp').approved_by_id = resp'.caller]_vars
    /\ [][(resp'.op = "create_participation" /\ resp'.status = 200)
            => /\ WrittenBy(resp') \in stage_participations'
               /\ WrittenBy(resp').status = ENROLLED
               /\ WrittenBy(resp').completion_date = NoneStr
               /\ WrittenBy(resp').approved_by_id = Null
               /\ WrittenBy(resp').approved_by_name = Null]_vars

\* C27 witness: an update without completion_date made an enrolled
\* participation approved or reproved and stamped it.
C27_Witness ==
    /\ UpdateDecided(resp)
    /\ resp.args.completion_date = NoneStr
    /\ WrittenBy(resp).completion_date = isoformat(now)
    /\ now = 1

\* C27, the supplied date: the update carried a completion_date and it is
\* the stored one.
C27_WitnessSupplied ==
    /\ UpdateDecided(resp)
    /\ WrittenBy(resp).completion_date = SuppliedDate

\* C27, the decision routes: approve_participation stamped a participation.
C27_WitnessApprove ==
    /\ resp.op = "approve_participation" /\ resp.status = 200
    /\ DecisionStamped(WrittenBy(resp))

(***************************************************************************)
(* SpecAdmin: the accounts of the platform from the startup state: the     *)
(* superadmin creates a tenant with its owner, users register or are       *)
(* created by admins, are updated and deleted, and log in.                 *)
(***************************************************************************)
\* TenantCreate.max_users: int = 10 (the default; the bodies here give none)
DefaultMaxUsers == 10

\* the collections the handlers of this section leave alone
offAdmin == <<contentVars, videoVars, partVars, resetVars, user_journey, now,
              perm_arg, requests, formative_stages, stage_indicators, acompanhamentos,
              rateVars>>

\* utils/security.py check_tenant_limits(tenant_id, "users")
check_tenant_limits(tenant_id) ==
    LET current_count ==
            Cardinality({ u \in users : u.tenant_id = tenant_id })
    IN IF \A t \in tenants : t.id # tenant_id
       THEN [status |-> 404, detail |-> "Tenant not found"]
       ELSE IF current_count >= DefaultMaxUsers
       THEN [status |-> 403, detail |-> "User limit reached"]
       ELSE [status |-> 200, detail |-> ""]

\* UserCreate bodies: e-mail address, CPF and roles (default [user]); the
\* password is 1, and the handlers that store it draw the salt 1
UserCreate ==
    [email : {2, 3}, cpf : {Null, 1}, roles : {{USER}}]
    \cup {[email |-> 3, cpf |-> Null, roles |-> {SUPERADMIN}]}

\* the user document register and create_user build from the body
user_dict(user_data, id, tenant_id, salt) ==
    [BlankUser(id, tenant_id) EXCEPT
        !.email = user_data.email, !.cpf = user_data.cpf,
        !.has_roles = TRUE, !.roles = user_data.roles,
        !.password = hash_password(1, salt)]

\* routes/auth.py register
register ==
    \E user_data \in UserCreate, tenant_slug \in {Null, 1}, salt \in {1} :
        LET args == [body |-> user_data, tenant_slug |-> tenant_slug]
            by_slug == { t \in tenants :
                           t.slug = tenant_slug /\ t.status = ACTIVE }
            tenant == CHOOSE t \in by_slug : TRUE
            limits == check_tenant_limits(tenant.id)
            existing == { u \in users : u.email = user_data.email
                                         /\ u.tenant_id = tenant.id }
            existing_cpf == { u \in users : u.cpf = user_data.cpf
                                             /\ u.tenant_id = tenant.id }
            id == new_id("users")
            new_user == [user_dict(user_data, id, tenant.id, salt)
                            EXCEPT !.role = USER]
            entry == AuditEntry(id, "register", "user", id)
            Fail(status, detail) ==
                /\ resp' = Reply("register", Null, args, status, detail, {})
                /\ UNCHANGED <<users, audit_logs, last_id>>
        IN /\ IF tenant_slug = Null THEN Fail(400, "Tenant slug is required")
              ELSE IF by_slug = {}
              THEN Fail(404, "Organization not found or inactive")
              ELSE IF limits.status # 200 THEN Fail(limits.status, limits.detail)
              ELSE IF existing # {}
              THEN Fail(400, "Email already registered in this organization")
              ELSE IF user_data.cpf # Null /\ existing_cpf # {}
              THEN Fail(400, "CPF already registered in this organization")
              ELSE /\ last_id["users"] < MaxUsers
                   /\ LogRoom(entry)
                   /\ users' = users \cup {new_user}
                   /\ last_id' = [last_id EXCEPT !["users"] = id]
                   /\ audit_logs' = log_action(id, "register", "user", id)
                   /\ resp' = Reply("register", Null, args, 200, "",
                                    {UserView(new_user)})
           /\ UNCHANGED <<tenants, offAdmin>>

\* routes/users.py create_user
create_user ==
    \E cu \in users, user_data \in UserCreate, salt \in {1} :
        LET me == UserView(cu)
            tenant_id == me.tenant_id
            args == [body |-> user_data, tenant_slug |-> Null]
            limits == check_tenant_limits(tenant_id)
            existing == { u \in users :
                            /\ u.email = user_data.email
                            /\ tenant_id # Null => u.tenant_id = tenant_id }
            existing_cpf == { u \in users :
                                /\ u.cpf = user_data.cpf
                                /\ tenant_id # Null => u.tenant_id = tenant_id }
            id == new_id("users")
            new_user == user_dict(user_data, id, tenant_id, salt)
            entry == AuditEntry(me.id, "create", "user", id)
            Fail(status, detail) ==
                /\ resp' = Reply("create_user", me.id, args, status, detail, {})
                /\ UNCHANGED <<users, audit_logs, last_id>>
        IN /\ IF ~is_admin(me) THEN Fail(403, "Admin access required")
              ELSE IF tenant_id # Null /\ limits.status # 200
              THEN Fail(limits.status, limits.detail)
              ELSE IF existing # {} THEN Fail(400, "Email already registered")
              ELSE IF user_data.cpf # Null /\ existing_cpf # {}
              THEN Fail(400, "CPF already registered")
              ELSE /\ last_id["users"] < MaxUsers
                   /\ LogRoom(entry)
                   /\ users' = users \cup {new_user}
                   /\ last_id' = [last_id EXCEPT !["users"] = id]
                   /\ audit_logs' = log_action(me.id, "create", "user", id)
                   /\ resp' = Reply("create_user", me.id, args, 200, "",
                                    {UserView(new_user)})
           /\ UNCHANGED <<tenants, offAdmin>>

\* routes/tenants.py create_tenant: the tenant and its owner (every slug
\* given is well-formed)
create_tenant ==
    \E cu \in users, slug \in {1, 2}, owner_email \in {2, 3}, salt \in {1} :
        LET me == UserView(cu)
            args == [slug |-> slug, owner_email |-> owner_email]
            existing == { t \in tenants : t.slug = slug }
            existing_email == { u \in users : u.email = owner_email }
            tenant_id == new_id("tenants")
            tenant_dict == [id |-> tenant_id, slug |-> slug, status |-> ACTIVE]
            owner_id == new_id("users")
            owner_dict ==
                [BlankUser(owner_id, tenant_id) EXCEPT
                    !.email = owner_email, !.role = ADMIN,
                    !.is_tenant_owner = TRUE,
                    !.password = hash_password(1, salt)]
            entry == AuditEntry(me.id, "create", "tenant", tenant_id)
            Fail(status, detail) ==
                /\ resp' = Reply("create_tenant", me.id, args, status, detail, {})
                /\ UNCHANGED <<users, tenants, audit_logs, last_id>>
        IN /\ IF ~is_superadmin(me) THEN Fail(403, "Superadmin access required")
              ELSE IF existing # {} THEN Fail(400, "Slug already in use")
              ELSE IF existing_email # {}
              THEN Fail(400, "Owner email already registered")
              ELSE /\ last_id["tenants"] < MaxTenants
                   /\ last_id["users"] < MaxUsers
                   /\ LogRoom(entry)
                   /\ tenants' = tenants \cup {tenant_dict}
                   /\ users' = users \cup {owner_dict}
                   /\ last_id' = [last_id EXCEPT !["tenants"] = tenant_id,
                                                 !["users"] = owner_id]
                   /\ audit_logs' = log_action(me.id, "create", "tenant", tenant_id)
                   /\ resp' = Reply("create_tenant", me.id, args, 200, "",
                                    {tenant_dict})
           /\ UNCHANGED offAdmin

\* main.py startup_event: the default superadmin (1), and the owner (2)
\* of the tenant the superadmin created first
StartupUsers ==
    { [BlankUser(1, Null) EXCEPT !.role = SUPERADMIN,
                                 !.password = hash_password(1, 1)],
      [BlankUser(2, 1) EXCEPT !.role = ADMIN, !.is_tenant_owner = TRUE,
                              !.password = hash_password(1, 1)] }

InitAdmin ==
    /\ users = StartupUsers
    /\ tenants = {Tenant(1, ACTIVE)}
    /\ formative_stages = {}
    /\ stage_indicators = {} /\ acompanhamentos = {} /\ EmptyRates
    /\ audit_logs = {AuditEntry(1, "create", "tenant", 1)}
    /\ last_id = [c \in Collections |-> IF c = "users" THEN 2
                                        ELSE IF c = "tenants" THEN 1 ELSE 0]
    /\ documents = {} /\ locations = {}
    /\ videos = {} /\ video_progress = {} /\ video_evaluations = {}
    /\ EmptyParts /\ EmptyResets
    /\ user_journey = {} /\ now = MaxUpdates - 1
    /\ resp = NoResp
    /\ perm_arg = NullPermissions /\ requests = NoRequests

NextAdmin ==
    \/ register
    \/ create_user
    \/ update_user

SpecAdmin == InitAdmin /\ [][NextAdmin]_vars

\* two user documents of one tenant
SameTenant(u, v) == u.id # v.id /\ u.tenant_id # Null /\ u.tenant_id = v.tenant_id

UniqueEmail == \A u, v \in users : SameTenant(u, v) => u.email # v.email
UniqueCpf ==
    \A u, v \in users : (SameTenant(u, v) /\ u.cpf # Null) => u.cpf # v.cpf

\* the register or create_user request r carries the e-mail address or
\* the CPF of a user of the tenant it writes to
WouldShare(r) ==
    \E v \in users :
        /\ v.tenant_id # Null
        /\ v.tenant_id = (IF r.op = "register" THEN r.args.tenant_slug
                          ELSE CallerOf(r).tenant_id)
        /\ \/ r.args.body.email = v.email
           \/ r.args.body.cpf # Null /\ r.args.body.cpf = v.cpf

\* C24: within one tenant no two users share an e-mail address and no two
\* share a CPF, in every state of a sequential run of register, create_user,
\* update_user and create_tenant; a call that would break this fails with 400
\* and changes nothing (no call that is carried out breaks it, and a
\* register or create_user naming a taken address or CPF is answered 400).
C24_UniqueEmailAndCpf ==
    /\ [](UniqueEmail /\ UniqueCpf)
    /\ [][(resp'.op \in {"register", "create_user"}
             /\ resp'.status \notin {403, 404}
             /\ WouldShare(resp'))
          => (resp'.status = 400 /\ UNCHANGED users)]_vars

\* The e-mail half of C24: every handler checks the address it stores.
C24_UniqueEmailKept == UniqueEmail

\* C24, the answers alone: a register or create_user naming a taken address
\* or CPF of the tenant is answered 400 and stores nothing.
C24_TakenIsRefused ==
    [][(resp'.op \in {"register", "create_user"}
          /\ resp'.status \notin {403, 404}
          /\ WouldShare(resp'))
       => (resp'.status = 400 /\ UNCHANGED users)]_vars

\* user document u holds the superadmin role
HoldsSuperadmin(u) == SUPERADMIN \in get_user_roles(u)

\* request r was made by nobody (register) or by a user without the
\* superadmin role
NoSuperadminCaller(r) ==
    r.caller = Null \/ ~HoldsSuperadmin(CallerOf(r))

\* C29: no operation performed by a caller without the superadmin role gives
\* the superadmin role to a user: after create_user or update_user called by
\* a tenant admin (or any other such call) every user holding the role held
\* it before.
C29_NoSuperadminGranted ==
    [][NoSuperadminCaller(resp')
       => \A u \in users' :
             HoldsSuperadmin(u)
                => \E v \in users : v.id = u.id /\ HoldsSuperadmin(v)]_vars

\* The part of C29 about create_user and update_user alone.
C29_AdminCallsGrantNone ==
    [][(resp'.op \in {"create_user", "update_user"}
           /\ NoSuperadminCaller(resp'))
       => \A u \in users' :
             HoldsSuperadmin(u)
                => \E v \in users : v.id = u.id /\ HoldsSuperadmin(v)]_vars

(***************************************************************************)
(* SpecOwner: update_user and delete_user called by the users of one       *)
(* tenant, none of them superadmin at the start.                           *)
(***************************************************************************)
\* the owner (1) of tenant 1, written by create_tenant, and an admin (2) and
\* a user (3) written by create_user
OwnerUsers ==
    { [BlankUser(1, 1) EXCEPT !.role = ADMIN, !.is_tenant_owner = TRUE],
      [BlankUser(2, 1) EXCEPT !.has_roles = TRUE, !.roles = {ADMIN}],
      [BlankUser(3, 1) EXCEPT !.has_roles = TRUE, !.roles = {USER}] }

InitOwner ==
    /\ users = OwnerUsers
    /\ tenants = {Tenant(1, ACTIVE)}
    /\ formative_stages = {}
    /\ stage_indicators = {} /\ acompanhamentos = {} /\ EmptyRates
    /\ audit_logs = {}
    /\ last_id = [c \in Collections |-> IF c = "users" THEN 3
                                        ELSE IF c = "tenants" THEN 1 ELSE 0]
    /\ documents = {} /\ locations = {}
    /\ videos = {} /\ video_progress = {} /\ video_evaluations = {}
    /\ EmptyParts /\ EmptyResets
    /\ user_journey = {} /\ now = MaxUpdates - 1
    /\ resp = NoResp
    /\ perm_arg = NullPermissions /\ requests = NoRequests

NextOwner ==
    \/ update_user
    \/ delete_user

SpecOwner == InitOwner /\ [][NextOwner]_vars

\* user document u is a tenant owner holding the admin role
OwnerAdmin(u) == u.is_tenant_owner /\ ADMIN \in get_user_roles(u)

\* C23: after an update_user or delete_user call made by a caller without
\* the superadmin role every user flagged is_tenant_owner still exists and
\* still holds the admin role; a call that would delete the owner or take
\* the admin role from the owner fails and changes nothing.
C23_OwnerKeptAdmin ==
    [][(resp'.op \in {"update_user", "delete_user"}
           /\ NoSuperadminCaller(resp'))
       => \A u \in users :
             OwnerAdmin(u) => \E v \in users' : v.id = u.id /\ OwnerAdmin(v)]_vars

\* The deletion half of C23: no such call removes the owner.
C23_OwnerNotDeleted ==
    [][(resp'.op \in {"update_user", "delete_user"}
           /\ NoSuperadminCaller(resp'))
       => \A u \in users :
             u.is_tenant_owner => \E v \in users' : v.id = u.id]_vars

(***************************************************************************)
(* SpecSignIn: users are created by create_tenant, register and            *)
(* create_user and log in.                                                 *)
(***************************************************************************)
NextSignIn ==
    \/ create_tenant
    \/ register
    \/ create_user
    \/ login

SpecSignIn == InitAdmin /\ [][NextSignIn]_vars

\* the active users of the active tenant that login request r names by
\* slug, with the e-mail address and the password of r
ActiveMatches(r) ==
    { u \in users :
        /\ u.status = ACTIVE /\ u.email = r.args.email
        /\ verify_password(r.args.password, u.password)
        /\ \E t \in tenants :
              /\ t.slug = r.args.tenant_slug /\ t.status = ACTIVE
              /\ u.tenant_id = t.id }

\* C28: login of an active user of an active tenant with the tenant's slug
\* and the right password answers 200 with an access token and a refresh
\* token of that user, whether register, create_user or create_tenant wrote
\* the user.
C28_LoginOfEveryCreatedUser ==
    [][(resp'.op = "login" /\ resp'.args.tenant_slug # Null
           /\ ActiveMatches(resp') # {})
       => /\ resp'.status = 200
          /\ resp'.user_id \in { u.id : u \in ActiveMatches(resp') }
          /\ resp'.access_token.type = "access"
          /\ resp'.access_token.user_id = resp'.user_id
          /\ resp'.refresh_token.type = "refresh"
          /\ resp'.refresh_token.user_id = resp'.user_id]_vars

\* C28 for the users that carry the legacy role field (written by register
\* and create_tenant): their login succeeds.
C28_LoginWithLegacyRole ==
    [][(resp'.op = "login" /\ resp'.args.tenant_slug # Null
           /\ ActiveMatches(resp') # {}
           /\ \A u \in ActiveMatches(resp') : u.role # Absent)
       => /\ resp'.status = 200
          /\ resp'.access_token.type = "access"
          /\ resp'.refresh_token.type = "refresh"]_vars

(***************************************************************************)
(* SpecStage: the formative stage of a user is changed by update_user      *)
(* while the superadmin enrolls users in a cycle and decides on them.      *)
(* A run starts after the superadmin has created the cycle and enrolled    *)
(* user 2, in one of two situations: the participation was reproved and    *)
(* then approved and the user has not been moved yet, or the user has      *)
(* been moved twice and the participation is still enrolled.                *)
(***************************************************************************)
\* the superadmin (1) and a user (2) of tenant 1, created in stage 1
StageUsers ==
    { [BlankUser(1, Null) EXCEPT !.role = SUPERADMIN],
      [BlankUser(2, 1) EXCEPT !.has_roles = TRUE, !.roles = {USER},
                              !.formative_stage_id = 1] }

\* the same two, user 2 created without a stage, moved to stage 2 at
\* instant 1 and to stage 1 at instant 2
MovedUsers ==
    { [BlankUser(1, Null) EXCEPT !.role = SUPERADMIN],
      [BlankUser(2, 1) EXCEPT !.has_roles = TRUE, !.roles = {USER},
                              !.formative_stage_id = 1, !.updated_at = 2] }

\* the two journey records update_user wrote for the moves of user 2
MovedJourney ==
    { record_journey_transition(1, 2, Null, 2, 1, [id |-> 1]),
      record_journey_transition(2, 2, 2, 1, 1, [id |-> 1]) }

\* the participation of user 2, approved by the superadmin at instant 0
FirstParticipation ==
    [id |-> 1, tenant_id |-> Null, user_id |-> 2, cycle_id |-> 1,
     status |-> APPROVED, completion_date |-> isoformat(0),
     approved_by_id |-> 1, approved_by_name |-> 1]

\* the participation of user 2 as create_participation left it
EnrolledParticipation ==
    [FirstParticipation EXCEPT !.status = ENROLLED,
                               !.completion_date = NoneStr,
                               !.approved_by_id = Null,
                               !.approved_by_name = Null]

InitStage ==
    /\ tenants = {Tenant(1, ACTIVE)}
    /\ formative_stages = {FirstStage}
    /\ stage_cycles = {SharedCycle}
    /\ stage_indicators = {} /\ acompanhamentos = {} /\ EmptyRates
    /\ documents = {} /\ locations = {}
    /\ videos = {} /\ video_progress = {} /\ video_evaluations = {}
    /\ EmptyResets
    /\ resp = NoResp
    /\ perm_arg = NullPermissions /\ requests = NoRequests
    /\ \/ /\ users = StageUsers
          /\ user_journey = {} /\ now = MaxUpdates - 1
          /\ stage_participations = {FirstParticipation}
          /\ audit_logs = {AuditEntry(1, "create", "stage_cycle", 1),
                           AuditEntry(1, "create", "stage_participation", 1),
                           AuditEntry(1, "reprove", "stage_participation", 1),
                           AuditEntry(1, "approve", "stage_participation", 1)}
          /\ last_id = [c \in Collections |->
                          IF c = "users" THEN 2
                          ELSE IF c \in {"tenants", "stage_cycles",
                                         "stage_participations"}
                          THEN 1 ELSE 0]
       \/ /\ users = MovedUsers
          /\ user_journey = MovedJourney /\ now = MaxUpdates
          /\ stage_participations = {EnrolledParticipation}
          /\ audit_logs = {AuditEntry(1, "create", "stage_cycle", 1),
                           AuditEntry(1, "create", "stage_participation", 1),
                           AuditEntry(1, "update", "user", 2)}
          /\ last_id = [c \in Collections |->
                          IF c \in {"users", "user_journey"} THEN 2
                          ELSE IF c \in {"tenants", "stage_cycles",
                                         "stage_participations"}
                          THEN 1 ELSE 0]

NextStage ==
    \/ update_user
    \/ create_participation
    \/ update_participation
    \/ approve_participation
    \/ reprove_participation
    \/ delete_participation

SpecStage == InitStage /\ [][NextStage]_vars

\* the five operations on participations
ParticipationOps ==
    {"create_participation", "update_participation", "approve_participation",
     "reprove_participation", "delete_participation"}

\* user document v is u after a step that moved it to another stage; an
\* empty string in the field names no stage
MovedToStage(u, v) ==
    /\ v.id = u.id
    /\ v.formative_stage_id # u.formative_stage_id
    /\ ~falsy(v.formative_stage_id)

\* C22: an update_user step that changes a user's formative_stage_id from A
\* to a different stage B adds exactly one user_journey record, with
\* from_stage_id = A and to_stage_id = B, and leaves the participations as
\* they were; a step of create, update, approve, reprove or delete
\* participation leaves every user document and every journey record as it
\* was.
C22_StageChangeFrame ==
    [][ /\ \A u \in users : \A v \in users' :
              (resp'.op = "update_user" /\ MovedToStage(u, v)) =>
                  /\ \E r \in user_journey' \ user_journey :
                        /\ user_journey' = user_journey \cup {r}
                        /\ r.user_id = u.id
                        /\ r.from_stage_id = u.formative_stage_id
                        /\ r.to_stage_id = v.formative_stage_id
                  /\ stage_participations' = stage_participations
        /\ resp'.op \in ParticipationOps =>
              /\ users' = users
              /\ user_journey' = user_journey ]_vars

\* C22, the update: user 2, who has an approved participation, was moved
\* from stage 1 to stage 2 and the journey holds that record.
C22_Witness ==
    /\ resp.op = "update_user" /\ resp.status = 200
    /\ stage_participations # {}
    /\ \E u \in users : \E r \in user_journey :
          /\ u.id = resp.args.user_id /\ u.formative_stage_id = 2
          /\ r.user_id = u.id /\ r.from_stage_id = 1 /\ r.to_stage_id = 2

\* C22, the participations: the participation of a user with two journey
\* records was deleted, and the records and the stage are still there.
C22_WitnessDelete ==
    /\ resp.op = "delete_participation" /\ resp.status = 200
    /\ stage_participations = {}
    /\ user_journey = MovedJourney /\ users = MovedUsers

(***************************************************************************)
(* SpecJourney: admins create users, update them and write journey         *)
(* records by hand, one request after the other.                           *)
(***************************************************************************)
offJourney == <<contentVars, videoVars, partVars, resetVars, perm_arg, requests,
                platformVars>>

\* routes/user_journey.py create_journey_record: the record is inserted and
\* the user's formative_stage_id is set to its to_stage_id.  Documents of
\* db.formative_stages carry no tenant_id, so the stage is found only by a
\* caller without tenant_id; the record of such a caller has tenant_id None,
\* which UserJourneyResponse (tenant_id: str) rejects after the writes.
create_journey_record ==
    \E cu \in users, user_id \in 1..3, to_stage_id \in {1, 2} :
        LET me == UserView(cu)
            tenant_id == me.tenant_id
            args == [user_id |-> user_id, to_stage_id |-> to_stage_id]
            found == find_in_tenant(users, user_id, tenant_id)
            user == CHOOSE u \in found : TRUE
            stage == { s \in formative_stages :
                         s.id = to_stage_id /\ tenant_id = Null }
            t == now + 1
            id == new_id("user_journey")
            journey_record ==
                [id |-> id, tenant_id |-> tenant_id, user_id |-> user_id,
                 from_stage_id |-> user.formative_stage_id,
                 to_stage_id |-> to_stage_id, changed_by_id |-> me.id]
            updated == [user EXCEPT !.formative_stage_id = to_stage_id,
                                    !.updated_at = t]
            Fail(status, detail) ==
                /\ resp' = Reply("create_journey_record", me.id, args, status,
                                 detail, {})
                /\ UNCHANGED <<users, user_journey, audit_logs, last_id, now>>
        IN /\ IF ~is_admin(me) THEN Fail(403, "Admin access required")
              ELSE IF found = {} THEN Fail(404, "User not found")
              ELSE IF stage = {} THEN Fail(404, "Formative stage not found")
              ELSE /\ now < MaxUpdates
                   /\ last_id["user_journey"] < MaxJourney
                   /\ now' = t
                   /\ user_journey' = user_journey \cup {journey_record}
                   /\ last_id' = [last_id EXCEPT !["user_journey"] = id]
                   /\ users' = (users \ {user}) \cup {updated}
                   /\ audit_logs' = log_action(me.id, "create", "user_journey", id)
                   /\ resp' = Reply("create_journey_record", me.id, args,
                                    IF tenant_id = Null THEN 500 ELSE 200,
                                    "", {journey_record})
           /\ UNCHANGED offJourney

\* the superadmin and the owner after the superadmin's create_journey_record
\* moved the owner to stage 1 at instant 1
JourneyUsers ==
    { u \in StartupUsers : u.id # 2 } \cup
    { [u EXCEPT !.formative_stage_id = 1, !.updated_at = 1] :
        u \in { x \in StartupUsers : x.id = 2 } }

\* the record of that request
FirstJourney ==
    [id |-> 1, tenant_id |-> Null, user_id |-> 2, from_stage_id |-> Null,
     to_stage_id |-> 1, changed_by_id |-> 1]

InitJourney ==
    /\ users = JourneyUsers
    /\ tenants = {Tenant(1, ACTIVE)}
    /\ formative_stages = {FirstStage}
    /\ stage_indicators = {} /\ acompanhamentos = {} /\ EmptyRates
    /\ audit_logs = {AuditEntry(1, "create", "tenant", 1),
                     AuditEntry(1, "create", "user_journey", 1)}
    /\ last_id = [c \in Collections |->
                    IF c = "users" THEN 2
                    ELSE IF c \in {"tenants", "user_journey"} THEN 1 ELSE 0]
    /\ documents = {} /\ locations = {}
    /\ videos = {} /\ video_progress = {} /\ video_evaluations = {}
    /\ EmptyParts /\ EmptyResets
    /\ user_journey = {FirstJourney} /\ now = MaxUpdates - 1
    /\ resp = NoResp
    /\ perm_arg = NullPermissions /\ requests = NoRequests

NextJourney ==
    \/ create_user
    \/ update_user
    \/ create_journey_record

SpecJourney == InitJourney /\ [][NextJourney]_vars

\* the journey records of user u
RecordsOf(u) == { r \in user_journey : r.user_id = u.id }

\* the record of user u written last: identifiers are handed out in the
\* order of the requests
LastRecordOf(u) ==
    CHOOSE r \in RecordsOf(u) : \A q \in RecordsOf(u) : q.id <= r.id

\* C30: in every state reached by create_user, update_user and
\* create_journey_record calls made one after the other, a user with at
\* least one journey record is in the stage its last record leads to.
C30_LastRecordIsStage ==
    \A u \in users :
        RecordsOf(u) # {} =>
            LastRecordOf(u).to_stage_id = u.formative_stage_id

\* C30, the part that holds: a user whose formative_stage_id names a stage
\* and who has a journey record is in the stage of the last record.
C30_LastRecordUnlessCleared ==
    \A u \in users :
        (RecordsOf(u) # {} /\ ~falsy(u.formative_stage_id)) =>
            LastRecordOf(u).to_stage_id = u.formative_stage_id

(***************************************************************************)
(* SpecRace: create_participation requests served together.  The handler   *)
(* is a coroutine: it gives up control at every await of a database call,  *)
(* and nothing else orders it with the other requests, so a step here is   *)
(* one database call of one request together with the code up to the next. *)
(***************************************************************************)
offRace == <<users, stage_cycles, contentVars, videoVars, resetVars,
             user_journey, now, perm_arg, platformVars>>

\* a unique index on (user_id, cycle_id), which main.py does not create:
\* the insert of a second document of the pair stores nothing
insert_one_unique_pair(collection, doc) ==
    IF \E p \in collection :
          p.user_id = doc.user_id /\ p.cycle_id = doc.cycle_id
    THEN collection
    ELSE collection \cup {doc}

\* db.stage_participations.insert_one: the collection has plain indexes on
\* tenant_id, cycle_id and user_id only (main.py startup_event)
insert_one(collection, doc) == collection \cup {doc}

\* request r goes on to its next call
Goto(r, pc) == requests' = [requests EXCEPT ![r].pc = pc]

\* request r ends with an error response
Raise(r, status, detail) ==
    /\ requests' = [requests EXCEPT ![r].pc = "done"]
    /\ resp' = Reply("create_participation", requests[r].caller,
                     [NoArgs EXCEPT !.user_id = requests[r].user_id,
                                    !.cycle_id = requests[r].cycle_id],
                     status, detail, {})

\* the request arrives: Depends(require_admin) has loaded current_user
receive_create_participation ==
    \E r \in RequestIds, cu \in users, user_id \in 1..2, cycle_id \in {1, 2} :
        LET me == UserView(cu)
            started == [requests[r] EXCEPT !.caller = me.id,
                                           !.tenant_id = me.tenant_id,
                                           !.user_id = user_id,
                                           !.cycle_id = cycle_id]
        IN /\ requests[r].pc = "idle"
           /\ IF ~is_admin(me)
              THEN /\ requests' = [requests EXCEPT ![r] =
                                      [started EXCEPT !.pc = "done"]]
                   /\ resp' = Reply("create_participation", me.id,
                                    [NoArgs EXCEPT !.user_id = user_id,
                                                   !.cycle_id = cycle_id],
                                    403, "Admin access required", {})
              ELSE /\ requests' = [requests EXCEPT ![r] =
                                      [started EXCEPT !.pc = "find_user"]]
                   /\ UNCHANGED resp
           /\ UNCHANGED <<stage_participations, audit_logs, last_id, offRace>>

\* user = await db.users.find_one(user_query)
find_user ==
    \E r \in RequestIds :
        LET q == requests[r]
            user == find_in_tenant(users, q.user_id, q.tenant_id)
        IN /\ q.pc = "find_user"
           /\ IF user = {}
              THEN Raise(r, 404, "User not found")
              ELSE Goto(r, "find_cycle") /\ UNCHANGED resp
           /\ UNCHANGED <<stage_participations, audit_logs, last_id, offRace>>

\* cycle = await db.stage_cycles.find_one(cycle_query)
find_cycle ==
    \E r \in RequestIds :
        LET q == requests[r]
            cycles == find_in_tenant(stage_cycles, q.cycle_id, q.tenant_id)
        IN /\ q.pc = "find_cycle"
           /\ IF cycles = {}
              THEN Raise(r, 404, "Cycle not found")
              ELSE /\ requests' = [requests EXCEPT
                                      ![r].pc = "find_existing",
                                      ![r].cycle = {CHOOSE c \in cycles : TRUE}]
                   /\ UNCHANGED resp
           /\ UNCHANGED <<stage_participations, audit_logs, last_id, offRace>>

\* existing = await db.stage_participations.find_one({user_id, cycle_id}),
\* and the test of cycle.get("max_participants") on the document read before
find_existing ==
    \E r \in RequestIds :
        LET q == requests[r]
            cycle == CHOOSE c \in q.cycle : TRUE
            existing == { p \in stage_participations :
                            p.user_id = q.user_id /\ p.cycle_id = q.cycle_id }
        IN /\ q.pc = "find_existing"
           /\ IF existing # {}
              THEN Raise(r, 400, "User already enrolled in this cycle")
              ELSE IF cycle.max_participants # NoneInt /\ cycle.max_participants # 0
              THEN Goto(r, "count_documents") /\ UNCHANGED resp
              ELSE Goto(r, "insert_one") /\ UNCHANGED resp
           /\ UNCHANGED <<stage_participations, audit_logs, last_id, offRace>>

\* current_count = await db.stage_participations.count_documents({cycle_id})
count_documents ==
    \E r \in RequestIds :
        LET q == requests[r]
            cycle == CHOOSE c \in q.cycle : TRUE
            current_count ==
                Cardinality({ p \in stage_participations :
                                p.cycle_id = q.cycle_id })
        IN /\ q.pc = "count_documents"
           /\ IF current_count >= cycle.max_participants
              THEN Raise(r, 400, "Cycle is full")
              ELSE Goto(r, "insert_one") /\ UNCHANGED resp
           /\ UNCHANGED <<stage_participations, audit_logs, last_id, offRace>>

\* await db.stage_participations.insert_one(dict(participation))
insert_participation ==
    \E r \in RequestIds :
        LET q == requests[r]
            id == new_id("stage_participations")
            participation ==
                [id |-> id, tenant_id |-> q.tenant_id, user_id |-> q.user_id,
                 cycle_id |-> q.cycle_id, status |-> ENROLLED,
                 completion_date |-> NoneStr, approved_by_id |-> Null,
                 approved_by_name |-> Null]
        IN /\ q.pc = "insert_one"
           /\ last_id["stage_participations"] < MaxParticipations
           /\ stage_participations' =
                  insert_one(stage_participations, participation)
           /\ last_id' = [last_id EXCEPT !["stage_participations"] = id]
           /\ requests' = [requests EXCEPT ![r].pc = "log_action",
                                           ![r].participation = {participation}]
           /\ UNCHANGED <<resp, audit_logs, offRace>>

\* await log_action(...), and the response
log_participation ==
    \E r \in RequestIds :
        LET q == requests[r]
            participation == CHOOSE p \in q.participation : TRUE
        IN /\ q.pc = "log_action"
           /\ audit_logs' = log_action(q.caller, "create", "stage_participation",
                                       participation.id)
           /\ requests' = [requests EXCEPT ![r].pc = "done"]
           /\ resp' = Reply("create_participation", q.caller,
                            [NoArgs EXCEPT !.user_id = q.user_id,
                                           !.cycle_id = q.cycle_id],
                            200, "", q.participation)
           /\ UNCHANGED <<stage_participations, last_id, offRace>>

\* the owner and a member of tenant 1
RaceUsers == { u \in PartUsers : u.tenant_id = 1 }

\* the cycle of tenant 1, without limit or for one participant
RaceCycles == { FirstCycle, [FirstCycle EXCEPT !.max_participants = 1] }

InitRace ==
    /\ users = RaceUsers
    /\ \E c \in RaceCycles : stage_cycles = {c}
    /\ stage_participations = {}
    /\ audit_logs = {AuditEntry(1, "create", "stage_cycle", 1)}
    /\ last_id = [c \in Collections |-> 0]
    /\ documents = {} /\ locations = {}
    /\ videos = {} /\ video_progress = {} /\ video_evaluations = {}
    /\ EmptyResets /\ EmptyJourney
    /\ EmptyPlatform
    /\ resp = NoResp
    /\ perm_arg = NullPermissions /\ requests = NoRequests

NextRace ==
    \/ receive_create_participation
    \/ find_user
    \/ find_cycle
    \/ find_existing
    \/ count_documents
    \/ insert_participation
    \/ log_participation

SpecRace == InitRace /\ [][NextRace]_vars

\* request r has passed the duplicate check, and the capacity check when the
\* cycle has a limit, and has not inserted yet
PassedChecks(r) == requests[r].pc = "insert_one"

\* two participations of one (user_id, cycle_id) pair are stored
DoubleEnrollment ==
    \E p, q \in stage_participations :
        p.id # q.id /\ p.user_id = q.user_id /\ p.cycle_id = q.cycle_id

\* cycle c has more participations than its max_participants
OverCapacity(c) ==
    /\ c.max_participants # NoneInt
    /\ Cardinality({ p \in stage_participations : p.cycle_id = c.id })
          > c.max_participants

C26_WitnessBothPassed ==
    /\ \A r \in RequestIds : PassedChecks(r)
    /\ stage_participations = {}
    /\ \E c \in stage_cycles : c.max_participants = 1

\* C26, the capacity: a cycle for one participant holds the participations
\* of two different users.
C26_WitnessOverCapacity ==
    /\ \E c \in stage_cycles : OverCapacity(c)
    /\ ~DoubleEnrollment

=============================================================================
